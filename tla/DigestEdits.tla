------------------------------ MODULE DigestEdits ------------------------------
(***************************************************************************)
(* A digest is written by an extraction and edited by two commands that    *)
(* may be run at any time: check (cli.py, entailment.py), which gives its  *)
(* claims a verdict, and the metadata refresh (refresh.py), which brings   *)
(* its record block up to the frontmatter of its record.  All three read   *)
(* the whole file, and later truncate it and write it, without a lock.     *)
(* The digest has one claim.                                               *)
(***************************************************************************)
EXTENDS Naturals

CONSTANTS
    MaxValue,       \* bound: the values of a field
    MaxFrontEdits,  \* bound: the edits of the frontmatter
    MaxExtractions, \* bound: the extractions after the first
    MaxByHand       \* bound: the runs of check that are not plain

ASSUME EditsAssumption == {MaxValue, MaxFrontEdits, MaxExtractions, MaxByHand} \subseteq Nat

Absent == 0
Fields == {"title", "speakers"}
Blocks == [Fields -> Absent .. MaxValue]

\* What the two classifiers make of a claim, which does not change: it has no quote or no
\* text, the first one's verdict is final, or it is neutral and the quote is found in the
\* record or not.
Claims == {"ineligible", "decided", "neutral", "located"}
First(claim) == IF claim = "decided" THEN "other/quote" ELSE "neutral/quote"

Assessed == {"neutral/quote", "other/quote", "window"}

VARIABLES
    front,      \* the frontmatter of the record
    digest,     \* the digest, as a document
    extraction, check, refresh,     \* the three processes
    budget      \* the edits, extractions and runs by hand that are left

editVars == <<front, digest, extraction, check, refresh, budget>>

\* A file that was cut off, or written by two at once; "emitted" is what the record block
\* was when the model's output was stored.
Document(block, claim, verdict) ==
    [whole |-> TRUE, record |-> block, emitted |-> block, curated |-> FALSE, claim |-> claim,
     verdict |-> verdict, usage |-> verdict # "none"]
Broken == [whole |-> FALSE]
Blank == [at |-> "idle"]
Writing(p) == p.at = "write"

EditsInit ==
    /\ front \in Blocks
    /\ \E claim \in Claims : digest = Document(front, claim, "none")
    /\ extraction = Blank /\ check = Blank /\ refresh = Blank
    /\ budget = [edits |-> MaxFrontEdits, extractions |-> MaxExtractions, hand |-> MaxByHand]

EditFront ==
    /\ budget.edits > 0 /\ budget' = [budget EXCEPT !.edits = @ - 1]
    /\ \E f \in Fields, v \in Absent .. MaxValue :
           v # front[f] /\ front' = [front EXCEPT ![f] = v]
    /\ UNCHANGED <<digest, extraction, check, refresh>>

\* open(path, "w") truncates; what is then written from its beginning is whole unless
\* another has written a longer text since.
Opened(p) == [p EXCEPT !.at = "write"]
Outcomes(p) == {p.doc} \cup (IF p.alone THEN {} ELSE {Broken})
Disturb(q) == IF Writing(q) THEN [q EXCEPT !.alone = FALSE] ELSE q

--------------------------------------------------------------------------------
(* annotate *)

ToDo(doc, mode) ==
    /\ doc.claim # "ineligible"
    /\ mode = "plain" => doc.verdict \notin Assessed
    /\ mode = "redo" => doc.verdict = "neutral/quote"

\* The second classifier takes what the first called neutral, if the record was found and
\* the quote in it.
Verdict(doc, mode, found) ==
    LET first == IF mode = "redo" THEN doc.verdict ELSE First(doc.claim)
    IN  IF first = "neutral/quote" /\ found /\ doc.claim = "located"
        THEN "window" ELSE first

Counted(doc, mode, found) ==
    ToDo(doc, mode) /\ (mode = "redo" => Verdict(doc, mode, found) = "window")

\* annotate_yaml
Annotated(doc, mode, found) ==
    IF Counted(doc, mode, found)
    THEN [doc EXCEPT !.verdict = Verdict(doc, mode, found), !.usage = TRUE] ELSE doc

--------------------------------------------------------------------------------
(* The end of an extraction: _entail and write_digest. *)

BeginExtraction ==
    /\ extraction.at = "idle" /\ budget.extractions > 0
    /\ budget' = [budget EXCEPT !.extractions = @ - 1]
    /\ \E claim \in Claims :
           extraction' = [at |-> "entail", doc |-> Document(front, claim, "none")]
    /\ UNCHANGED <<front, digest, check, refresh>>

\* The step may be off, not installed, refused or fail, and the digest is written all the
\* same; a policy that cannot be read ends the extraction.
Entail ==
    /\ extraction.at = "entail"
    /\ \/ \E found \in BOOLEAN : extraction' =
              [at |-> "open", alone |-> TRUE, doc |-> Annotated(extraction.doc, "plain", found)]
       \/ extraction' = [at |-> "open", alone |-> TRUE, doc |-> extraction.doc]
       \/ extraction' = Blank
    /\ UNCHANGED <<front, digest, check, refresh, budget>>

OpenExtracted ==
    /\ extraction.at = "open" /\ extraction' = Opened(extraction)
    /\ digest' = Broken /\ UNCHANGED <<front, check, refresh, budget>>

FillExtracted ==
    /\ Writing(extraction) /\ extraction' = Blank
    /\ digest' \in Outcomes(extraction)
    /\ check' = Disturb(check) /\ refresh' = Disturb(refresh) /\ UNCHANGED <<front, budget>>

Extraction == BeginExtraction \/ Entail \/ OpenExtracted \/ FillExtracted

--------------------------------------------------------------------------------
(* check_cmd *)

CheckElse == UNCHANGED <<front, digest, extraction, refresh>>
Needs(doc) == doc.claim # "ineligible" /\ doc.verdict \notin Assessed
CheckExits(code) ==
    check' = [at |-> "exit", code |-> code, mode |-> check.mode,
              due |-> IF check.doc.whole THEN Needs(check.doc) ELSE TRUE]

\* 0 assessed and written, 3 nothing to do, 1 failed, 2 not installed or refused.
BeginCheck ==
    /\ check.at \in {"idle", "exit"}
    /\ \E mode \in {"plain", "force", "redo"} :
           /\ mode = "plain" \/ budget.hand > 0
           /\ budget' = IF mode = "plain" THEN budget ELSE [budget EXCEPT !.hand = @ - 1]
           /\ check' = [at |-> "text", mode |-> mode]
    /\ CheckElse

CannotCheck ==
    /\ check.at = "text"
    /\ check' = [at |-> "exit", code |-> 2, mode |-> check.mode, due |-> TRUE]
    /\ UNCHANGED budget /\ CheckElse

\* The text that is annotated ...
ReadText ==
    /\ check.at = "text"
    /\ check' = [at |-> "load", mode |-> check.mode, doc |-> digest]
    /\ UNCHANGED budget /\ CheckElse

\* ... and the document that tells which record it was made of are read one after the other.
LoadDocument ==
    /\ check.at = "load"
    /\ IF digest.whole THEN check' = [check EXCEPT !.at = "annotate"] ELSE CheckExits(1)
    /\ UNCHANGED budget /\ CheckElse

\* MUTANT: what failed is forgotten.
AnnotateFailsQuietly ==
    /\ check.at = "annotate" /\ CheckExits(3) /\ UNCHANGED budget /\ CheckElse

AnnotateFails ==
    /\ check.at = "annotate" /\ CheckExits(1) /\ UNCHANGED budget /\ CheckElse

AnnotateText ==
    /\ check.at = "annotate"
    /\ \/ ~check.doc.whole /\ CheckExits(1)
       \/ /\ check.doc.whole
          /\ \E found \in BOOLEAN :
                 IF Counted(check.doc, check.mode, found)
                 THEN check' = [at |-> "open", mode |-> check.mode, alone |-> TRUE,
                                doc |-> Annotated(check.doc, check.mode, found)]
                 ELSE CheckExits(3)
    /\ UNCHANGED budget /\ CheckElse

OpenChecked ==
    /\ check.at = "open" /\ check' = Opened(check) /\ digest' = Broken
    /\ UNCHANGED <<front, extraction, refresh, budget>>

FillChecked ==
    /\ Writing(check) /\ CheckExits(0)
    /\ digest' \in Outcomes(check)
    /\ extraction' = Disturb(extraction) /\ refresh' = Disturb(refresh)
    /\ UNCHANGED <<front, budget>>

--------------------------------------------------------------------------------
(* plan and apply *)

RefreshElse == UNCHANGED <<front, digest, extraction, check, budget>>

\* MUTANT: a field the record block does not have yet is not a change.
ChangesOfKnown(doc, md) == {f \in Fields : md[f] # Absent /\ doc.record[f] \notin {Absent, md[f]}}

\* A field that is not in the frontmatter any more is no change.
Changes(doc, md) == {f \in Fields : md[f] # Absent /\ doc.record[f] # md[f]}

Refreshable(doc, md) == Changes(doc, md) # {} /\ "speakers" \notin Changes(doc, md)

Plan ==
    /\ refresh.at = "idle" /\ digest.whole /\ Refreshable(digest, front)
    /\ refresh' = [at |-> "read", fields |-> Changes(digest, front), values |-> front]
    /\ RefreshElse

\* _splice: the block is updated, and the curation is added unless there is one.
Spliced(doc, fields, values) ==
    [doc EXCEPT !.record = [f \in Fields |-> IF f \in fields THEN values[f] ELSE @[f]],
                !.curated = TRUE]

\* The plan is applied to what the file then holds; without a record block it fails.
Splice ==
    /\ refresh.at = "read"
    /\ refresh' = IF digest.whole
                  THEN [at |-> "open", alone |-> TRUE,
                        doc |-> Spliced(digest, refresh.fields, refresh.values)]
                  ELSE Blank
    /\ RefreshElse

OpenRefreshed ==
    /\ refresh.at = "open" /\ refresh' = Opened(refresh) /\ digest' = Broken
    /\ UNCHANGED <<front, extraction, check, budget>>

FillRefreshed ==
    /\ Writing(refresh) /\ refresh' = Blank
    /\ digest' \in Outcomes(refresh)
    /\ extraction' = Disturb(extraction) /\ check' = Disturb(check)
    /\ UNCHANGED <<front, budget>>

Refresh == Plan \/ Splice \/ OpenRefreshed \/ FillRefreshed

--------------------------------------------------------------------------------
\* Any of them may be killed; what it has opened stays as it is.
KillEdit ==
    /\ \/ extraction.at # "idle" /\ extraction' = Blank /\ UNCHANGED <<check, refresh>>
       \/ check.at \notin {"idle", "exit"} /\ check' = Blank /\ UNCHANGED <<extraction, refresh>>
       \/ refresh.at # "idle" /\ refresh' = Blank /\ UNCHANGED <<extraction, check>>
    /\ UNCHANGED <<front, digest, budget>>

CheckWorks ==
    BeginCheck \/ ReadText \/ LoadDocument \/ AnnotateText \/ OpenChecked \/ FillChecked

EditsNext ==
    EditFront \/ Extraction \/ CheckWorks \/ CannotCheck \/ AnnotateFails \/ Refresh \/ KillEdit

\* Both commands are run again and again, and an extraction that was begun goes on.
EditsFairness == /\ WF_editVars(CheckWorks) /\ WF_editVars(Refresh)
                 /\ WF_editVars(Entail \/ OpenExtracted \/ FillExtracted)

EditsSpec == EditsInit /\ [][EditsNext]_editVars /\ EditsFairness

--------------------------------------------------------------------------------
(* Properties. *)

\* A verdict in a digest is the one its own claim has, with the usage that paid for it,
\* however the edits overtake each other; and a digest that names no curation has the
\* record block the extraction gave it.
VerdictsFitTheirClaims ==
    digest.whole =>
        /\ digest.verdict # "none" =>
               /\ digest.usage /\ digest.claim # "ineligible"
               /\ IF digest.verdict = "window" THEN digest.claim = "located"
                  ELSE digest.verdict = First(digest.claim)
        /\ digest.record # digest.emitted => digest.curated

\* If a check that is not limited to the quotes not located exits 0 or 3, no claim of the
\* digest it read, or then wrote, is without a verdict: the scheduler may forget it.
CheckExitTells ==
    check.at = "exit" /\ check.mode # "redo" /\ check.due => check.code \in {1, 2}

\* Whatever overtakes what, a digest accounts for its edits, and so does the exit code.
EditsAreAccounted == VerdictsFitTheirClaims /\ CheckExitTells

Outdated == {f \in Fields : front[f] \notin {Absent, digest.record[f]}}
Maintained == ~Needs(digest) /\ (Outdated = {} \/ "speakers" \in Outdated)

\* The two commands do not undo each other's work for ever: once records are left alone
\* and nothing is extracted, killed or refused any more, the claim has its verdict and
\* the record block what a refresh may give it; or the file was broken, by a kill or by
\* two writers at once.
EditsConverge ==
    \/ []<><<EditFront \/ BeginExtraction \/ KillEdit \/ CannotCheck \/ AnnotateFails>>_editVars
    \/ <>[](digest.whole => Maintained)
================================================================================
