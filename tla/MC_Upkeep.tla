-------------------------------- MODULE MC_Upkeep ------------------------------
(***************************************************************************)
(* What keeps digests up to date, one part beside the other as in          *)
(* MC_Parts.                                                               *)
(***************************************************************************)
EXTENDS DigestEdits, Health

VARIABLE part

upkeepVars == <<part, editVars, healthVars>>

\* A part that is not looked at; Health begins in one state only.
EditsRest ==
    /\ front = [f \in Fields |-> Absent] /\ digest = Document(front, "ineligible", "none")
    /\ extraction = Blank /\ check = Blank /\ refresh = Blank
    /\ budget = [edits |-> MaxFrontEdits, extractions |-> MaxExtractions, hand |-> MaxByHand]

UpkeepInit ==
    /\ part \in {"edits", "health"}
    /\ IF part = "edits" THEN EditsInit ELSE EditsRest
    /\ HealthInit

UpkeepNext ==
    /\ UNCHANGED part
    /\ IF part = "edits" THEN EditsNext ELSE UNCHANGED editVars
    /\ IF part = "health" THEN HealthNext ELSE UNCHANGED healthVars

\* The fairness of each part, while it is the one looked at.
UpkeepFairness ==
    /\ WF_healthVars(part = "health" /\ BatchStep)
    /\ WF_healthVars(part = "health" /\ ReportStep(Stale))
    /\ WF_editVars(part = "edits" /\ CheckWorks)
    /\ WF_editVars(part = "edits" /\ Refresh)
    /\ WF_editVars(part = "edits" /\ (Entail \/ OpenExtracted \/ FillExtracted))

UpkeepSpec == UpkeepInit /\ [][UpkeepNext]_upkeepVars /\ UpkeepFairness

--------------------------------------------------------------------------------
(* The values of the constants. *)

CONSTANTS r1, r2, h1

OnlyPrepared == <<"pdsha">>
================================================================================
