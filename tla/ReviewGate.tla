------------------------------- MODULE ReviewGate ------------------------------
(***************************************************************************)
(* workspace/digester/review_gate.py: assess_record, for a review that     *)
(* names no body.  That the body was reviewed is then shown by the history *)
(* of the repository: the review was committed upon the commit it names,   *)
(* and the record had this body in that commit.  The gate reads the record,*)
(* the review and the history one after the other, while a reviewer and    *)
(* whoever commits go on.  A history is a sequence of commits, each the    *)
(* child of the one before.                                                *)
(***************************************************************************)
EXTENDS Naturals, FiniteSetsExt, SequencesExt

CONSTANTS
    RecordBodies,   \* the bodies the record may have
    MaxCommits,     \* bound: the commits
    MaxReviews      \* bound: the times the review is written

ASSUME ReviewAssumption == RecordBodies # {} /\ {MaxCommits, MaxReviews} \subseteq Nat

VARIABLES
    tree,       \* the working tree: the record's body and its review
    history,    \* the commits: the body and the review in each
    written,    \* how often a review was written
    gate        \* the run of assess_record

reviewVars == <<tree, history, written, gate>>

NoReview == [number |-> 0, parent |-> 0]
HeadNo == Len(history)

ReviewInit ==
    /\ \E b \in RecordBodies :
           /\ tree = [body |-> b, review |-> NoReview]
           /\ history = <<[body |-> b, review |-> NoReview]>>
           /\ gate = [at |-> "record", body |-> b, review |-> NoReview, commit |-> 0]
    /\ written = 0

EditRecord ==
    /\ \E b \in RecordBodies \ {tree.body} : tree' = [tree EXCEPT !.body = b]
    /\ UNCHANGED <<history, written, gate>>

\* A reviewer saves a review, which names the commit then checked out.
WriteReview ==
    /\ written < MaxReviews
    /\ written' = written + 1
    /\ tree' = [tree EXCEPT !.review = [number |-> written', parent |-> HeadNo]]
    /\ UNCHANGED <<history, gate>>

RemoveReview ==
    /\ tree.review # NoReview /\ tree' = [tree EXCEPT !.review = NoReview]
    /\ UNCHANGED <<history, written, gate>>

\* A commit of the record, of the review, or of both.
Commit ==
    /\ HeadNo < MaxCommits
    /\ \E entry \in {tree, [history[HeadNo] EXCEPT !.body = tree.body],
                     [history[HeadNo] EXCEPT !.review = tree.review]} :
           entry # history[HeadNo] /\ history' = Append(history, entry)
    /\ UNCHANGED <<tree, written, gate>>

--------------------------------------------------------------------------------
(* The gate. *)

Others == UNCHANGED <<tree, history, written>>
Conclude(verdict) == gate' = [gate EXCEPT !.at = verdict]

ReadRecord ==
    /\ gate.at = "record" /\ gate' = [gate EXCEPT !.at = "review", !.body = tree.body] /\ Others

\* load_sidecar
ReadReview ==
    /\ gate.at = "review"
    /\ gate' = [gate EXCEPT !.review = tree.review,
                            !.at = IF tree.review = NoReview THEN "unreviewed" ELSE "status"]
    /\ Others

\* git status: the review is as it was committed.
Status ==
    /\ gate.at = "status"
    /\ Conclude(IF tree.review = history[HeadNo].review THEN "latest" ELSE "not validated")
    /\ Others

\* The commits that changed the review, as git log lists them.
Touching(upTo) ==
    {k \in 1 .. upTo : history[k].review #
                           (IF k = 1 THEN NoReview ELSE history[k - 1].review)}

\* git log -1: the last commit of the review; the review must name its parent.
Latest ==
    /\ gate.at = "latest"
    /\ gate' = IF Touching(HeadNo) # {} /\ gate.review.parent = Max(Touching(HeadNo)) - 1
               THEN [gate EXCEPT !.at = "continuity", !.commit = Max(Touching(HeadNo))]
               ELSE [gate EXCEPT !.at = "not validated"]
    /\ Others

\* MUTANT: whatever came before the commit of the review will do.
ContinuityAssumed == gate.at = "continuity" /\ Conclude("body") /\ Others

\* A review that was deleted and added again is no evidence; one that is new is.
Continuity ==
    /\ gate.at = "continuity"
    /\ Conclude(IF \/ history[gate.commit - 1].review # NoReview
                   \/ Touching(gate.commit - 1) = {}
                THEN "body" ELSE "not validated")
    /\ Others

\* _record_at_commit: the record in that commit has the body that was read.
CompareBody ==
    /\ gate.at = "body"
    /\ Conclude(IF history[gate.commit].body = gate.body THEN "validated" ELSE "not validated")
    /\ Others

GateStep == ReadRecord \/ ReadReview \/ Status \/ Latest \/ Continuity \/ CompareBody

ReviewNext == GateStep \/ EditRecord \/ WriteReview \/ RemoveReview \/ Commit

ReviewSpec == ReviewInit /\ [][ReviewNext]_reviewVars

--------------------------------------------------------------------------------
(* Properties. *)

\* A body passes as reviewed only if one commit holds both it and the review that was
\* read, and follows the commit the review names without a gap in the review's history;
\* that is, unless the review was rewritten behind the gate's back.
ValidatedIsCommitted ==
    gate.at = "validated" /\ tree.review = gate.review =>
        \E k \in 2 .. HeadNo :
            /\ history[k].body = gate.body /\ history[k].review = gate.review
            /\ gate.review.parent = k - 1
            /\ \A j \in 1 .. k - 1 :
                   history[j].review # NoReview => history[k - 1].review # NoReview
================================================================================
