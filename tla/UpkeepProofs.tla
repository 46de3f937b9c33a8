------------------------------- MODULE UpkeepProofs ----------------------------
(***************************************************************************)
(* Theorems about the parts that MC_Upkeep checks: the edits of a digest   *)
(* and the health reports.  They have no variable in common.               *)
(***************************************************************************)
EXTENDS DigestEdits, Health, FiniteSetTheorems, TLAPS

--------------------------------------------------------------------------------
(* DigestEdits. *)

Modes == {"plain", "force", "redo"}

Docs == [whole : {TRUE}, record : Blocks, emitted : Blocks, curated : BOOLEAN, claim : Claims,
         verdict : Assessed \cup {"none"}, usage : BOOLEAN]

\* What VerdictsFitTheirClaims says of the digest, of any document.
Fits(doc) ==
    /\ doc.verdict # "none" =>
           /\ doc.usage /\ doc.claim # "ineligible"
           /\ IF doc.verdict = "window" THEN doc.claim = "located"
              ELSE doc.verdict = First(doc.claim)
    /\ doc.record # doc.emitted => doc.curated

FitDocs == {doc \in Docs : Fits(doc)}

\* The processes hold documents that fit, whatever the file has become meanwhile; what
\* check is about to write after a run of its own choice needs no other, and so says its
\* exit code.
ExtractionStates ==
    {Blank} \cup [at : {"entail"}, doc : FitDocs]
        \cup [at : {"open", "write"}, alone : BOOLEAN, doc : FitDocs]
RefreshStates ==
    {Blank} \cup [at : {"read"}, fields : SUBSET Fields, values : Blocks]
        \cup [at : {"open", "write"}, alone : BOOLEAN, doc : FitDocs]
Ready == [at : {"open", "write"}, alone : BOOLEAN, mode : Modes, doc : FitDocs]
Exited == [at : {"exit"}, code : 0 .. 3, mode : Modes, due : BOOLEAN]
CheckStates ==
    {Blank} \cup [at : {"text"}, mode : Modes]
        \cup [at : {"load", "annotate"}, mode : Modes, doc : FitDocs \cup {Broken}]
        \cup {c \in Ready : c.mode # "redo" => ~Needs(c.doc)}
        \cup {c \in Exited : c.mode # "redo" /\ c.due => c.code \in {1, 2}}

EditInv ==
    /\ front \in Blocks /\ digest \in FitDocs \cup {Broken}
    /\ extraction \in ExtractionStates /\ check \in CheckStates /\ refresh \in RefreshStates

\* A document as the model gave it, with any verdict annotate gives it, and with any plan
\* applied to it, fits.
LEMMA NewFits == ASSUME NEW block \in Blocks, NEW claim \in Claims
                 PROVE  Document(block, claim, "none") \in FitDocs
BY DEF Document, FitDocs, Docs, Fits

LEMMA AnnotatedFits ==
    ASSUME NEW doc \in FitDocs, NEW mode \in Modes, NEW found \in BOOLEAN
    PROVE  /\ Annotated(doc, mode, found) \in FitDocs
           /\ Counted(doc, mode, found) /\ mode # "redo" => ~Needs(Annotated(doc, mode, found))
<1> DEFINE v == Verdict(doc, mode, found)
<1>1. CASE Counted(doc, mode, found)
  <2>1. doc \in Docs /\ doc.claim # "ineligible" /\ (mode = "redo" => doc.verdict = "neutral/quote")
    BY <1>1 DEF Counted, ToDo, FitDocs
  <2>2. v \in Assessed /\ (IF v = "window" THEN doc.claim = "located" ELSE v = First(doc.claim))
    BY <2>1 DEF Verdict, First, Assessed, FitDocs, Fits
  <2>3. Annotated(doc, mode, found) = [doc EXCEPT !.verdict = v, !.usage = TRUE]
    BY <1>1 DEF Annotated
  <2> HIDE DEF v
  <2>4. [doc EXCEPT !.verdict = v, !.usage = TRUE] \in Docs
    BY <2>1, <2>2 DEF Docs
  <2>5. Fits([doc EXCEPT !.verdict = v, !.usage = TRUE])
    BY <2>1, <2>2 DEF Docs, Fits, FitDocs
  <2>6. ~Needs([doc EXCEPT !.verdict = v, !.usage = TRUE])
    BY <2>1, <2>2 DEF Docs, Needs
  <2> QED BY <2>3, <2>4, <2>5, <2>6 DEF FitDocs
<1>2. CASE ~Counted(doc, mode, found)
  BY <1>2 DEF Annotated
<1> QED BY <1>1, <1>2

LEMMA SplicedFits ==
    ASSUME NEW doc \in FitDocs, NEW fields \in SUBSET Fields, NEW values \in Blocks
    PROVE  Spliced(doc, fields, values) \in FitDocs
<1> DEFINE r == [f \in Fields |-> IF f \in fields THEN values[f] ELSE doc.record[f]]
<1>1. doc \in Docs /\ r \in Blocks
  BY DEF FitDocs, Docs, Blocks
<1>2. Spliced(doc, fields, values) = [doc EXCEPT !.record = r, !.curated = TRUE]
  BY <1>1 DEF Spliced, Docs
<1> HIDE DEF r
<1> QED BY <1>1, <1>2 DEF FitDocs, Docs, Fits

\* What another writer does to the file leaves a process where it is.
LEMMA Disturbed ==
    /\ extraction \in ExtractionStates => Disturb(extraction) \in ExtractionStates
    /\ check \in CheckStates => Disturb(check) \in CheckStates
    /\ refresh \in RefreshStates => Disturb(refresh) \in RefreshStates
<1>1. ASSUME extraction \in ExtractionStates PROVE Disturb(extraction) \in ExtractionStates
  BY <1>1 DEF Disturb, Writing, ExtractionStates, Blank
<1>2. ASSUME check \in CheckStates PROVE Disturb(check) \in CheckStates
  <2>1. CASE Writing(check)
    <3>1. check \in Ready /\ (check.mode # "redo" => ~Needs(check.doc))
      BY <1>2, <2>1 DEF CheckStates, Writing, Blank, Exited
    <3>2. Disturb(check) \in Ready /\ Disturb(check).mode = check.mode
          /\ Disturb(check).doc = check.doc
      BY <2>1, <3>1 DEF Disturb, Ready
    <3> QED BY <3>1, <3>2 DEF CheckStates
  <2> QED BY <1>2, <2>1 DEF Disturb
<1>3. ASSUME refresh \in RefreshStates PROVE Disturb(refresh) \in RefreshStates
  BY <1>3 DEF Disturb, Writing, RefreshStates, Blank
<1> QED BY <1>1, <1>2, <1>3

LEMMA EditsInitial == EditsInit => EditInv
BY NewFits DEF EditsInit, EditInv, ExtractionStates, CheckStates, RefreshStates

\* What the file holds when a process has written: its text, or a broken one.
LEMMA OutcomesFit ==
    ASSUME NEW q, q.doc \in FitDocs PROVE Outcomes(q) \subseteq FitDocs \cup {Broken}
BY DEF Outcomes

LEMMA ExtractionStep == ASSUME EditInv, Extraction PROVE EditInv'
<1> USE DEF EditInv
<1>1. CASE BeginExtraction
  BY <1>1, NewFits DEF BeginExtraction, ExtractionStates
<1>2. CASE Entail
  <2>1. extraction.doc \in FitDocs
    BY <1>2 DEF Entail, ExtractionStates, Blank
  <2>2. ASSUME NEW doc \in FitDocs, extraction' = [at |-> "open", alone |-> TRUE, doc |-> doc]
        PROVE  extraction' \in ExtractionStates
    BY <2>2 DEF ExtractionStates
  <2>3. "plain" \in Modes /\ Blank \in ExtractionStates
    BY DEF Modes, ExtractionStates
  <2>4. extraction' \in ExtractionStates
    BY <1>2, <2>1, <2>2, <2>3, AnnotatedFits, Zenon DEF Entail
  <2> QED BY <1>2, <2>4 DEF Entail
<1>3. CASE OpenExtracted
  <2>1. extraction \in [at : {"open", "write"}, alone : BOOLEAN, doc : FitDocs]
    BY <1>3 DEF OpenExtracted, ExtractionStates, Blank
  <2>2. extraction' \in ExtractionStates
    BY <1>3, <2>1 DEF OpenExtracted, Opened, ExtractionStates
  <2> QED BY <1>3, <2>2 DEF OpenExtracted
<1>4. CASE FillExtracted
  <2>1. extraction.doc \in FitDocs
    BY <1>4 DEF FillExtracted, Writing, ExtractionStates, Blank
  <2>2. digest' \in FitDocs \cup {Broken} /\ extraction' \in ExtractionStates
    BY <1>4, <2>1, OutcomesFit DEF FillExtracted, ExtractionStates
  <2> QED BY <1>4, <2>2, Disturbed DEF FillExtracted
<1> QED BY <1>1, <1>2, <1>3, <1>4 DEF Extraction

LEMMA RefreshStep == ASSUME EditInv, Refresh PROVE EditInv'
<1> USE DEF EditInv
<1>1. CASE Plan
  <2>1. Changes(digest, front) \in SUBSET Fields
    BY DEF Changes
  <2> QED BY <1>1, <2>1 DEF Plan, RefreshElse, RefreshStates
<1>2. CASE Splice
  <2>1. refresh.fields \in SUBSET Fields /\ refresh.values \in Blocks
    BY <1>2 DEF Splice, RefreshStates, Blank
  <2>2. digest.whole => digest \in FitDocs
    BY DEF Broken
  <2>3. refresh' \in RefreshStates
    BY <1>2, <2>1, <2>2, SplicedFits DEF Splice, RefreshStates
  <2> QED BY <1>2, <2>3 DEF Splice, RefreshElse
<1>3. CASE OpenRefreshed
  <2>1. refresh \in [at : {"open", "write"}, alone : BOOLEAN, doc : FitDocs]
    BY <1>3 DEF OpenRefreshed, RefreshStates, Blank
  <2>2. refresh' \in RefreshStates
    BY <1>3, <2>1 DEF OpenRefreshed, Opened, RefreshStates
  <2> QED BY <1>3, <2>2 DEF OpenRefreshed
<1>4. CASE FillRefreshed
  <2>1. refresh.doc \in FitDocs
    BY <1>4 DEF FillRefreshed, Writing, RefreshStates, Blank
  <2>2. digest' \in FitDocs \cup {Broken} /\ refresh' \in RefreshStates
    BY <1>4, <2>1, OutcomesFit DEF FillRefreshed, RefreshStates
  <2> QED BY <1>4, <2>2, Disturbed DEF FillRefreshed
<1> QED BY <1>1, <1>2, <1>3, <1>4 DEF Refresh

\* An exit says that nothing is due, if it says 0 or 3.
LEMMA CheckExit ==
    ASSUME check \in CheckStates, NEW code \in 0 .. 3, CheckExits(code), check.mode \in Modes,
           \/ code \in {1, 2}
           \/ check.mode = "redo"
           \/ check.doc.whole /\ ~Needs(check.doc)
    PROVE  check' \in CheckStates
<1> DEFINE due == IF check.doc.whole THEN Needs(check.doc) ELSE TRUE
<1>1. due \in BOOLEAN
  BY Zenon DEF Needs
<1>2. check' = [at |-> "exit", code |-> code, mode |-> check.mode, due |-> due]
  BY DEF CheckExits
<1>3. code \in {1, 2} \/ check.mode = "redo" \/ ~due
  OBVIOUS
<1> HIDE DEF due
<1>4. check' \in Exited
  BY <1>1, <1>2 DEF Exited
<1> QED BY <1>2, <1>3, <1>4 DEF CheckStates

LEMMA CheckStep == ASSUME EditInv, CheckWorks \/ CannotCheck \/ AnnotateFails PROVE EditInv'
<1> USE DEF EditInv
<1>1. CASE BeginCheck
  BY <1>1 DEF BeginCheck, CheckElse, CheckStates, Modes
<1>2. CASE CannotCheck
  <2>1. check.mode \in Modes
    BY <1>2 DEF CannotCheck, CheckStates, Blank, Ready, Exited
  <2>2. check' \in Exited /\ check'.code = 2
    BY <1>2, <2>1 DEF CannotCheck, Exited
  <2> QED BY <1>2, <2>2 DEF CannotCheck, CheckElse, CheckStates
<1>3. CASE ReadText
  <2>1. check.mode \in Modes
    BY <1>3 DEF ReadText, CheckStates, Blank, Ready, Exited
  <2> QED BY <1>3, <2>1 DEF ReadText, CheckElse, CheckStates
<1>4. CASE LoadDocument
  <2>1. check \in [at : {"load", "annotate"}, mode : Modes, doc : FitDocs \cup {Broken}]
    BY <1>4 DEF LoadDocument, CheckStates, Blank, Ready, Exited
  <2>2. CASE digest.whole
    BY <1>4, <2>1, <2>2 DEF LoadDocument, CheckElse, CheckStates
  <2>3. CASE ~digest.whole
    BY <1>4, <2>1, <2>3, CheckExit DEF LoadDocument, CheckElse
  <2> QED BY <2>2, <2>3
<1>5. ASSUME AnnotateText \/ AnnotateFails PROVE EditInv'
  <2>1. check \in [at : {"load", "annotate"}, mode : Modes, doc : FitDocs \cup {Broken}]
    BY <1>5 DEF AnnotateText, AnnotateFails, CheckStates, Blank, Ready, Exited
  <2>2. ASSUME CheckExits(1) PROVE check' \in CheckStates
    BY <2>1, <2>2, CheckExit
  <2>3. ASSUME NEW found \in BOOLEAN, check.doc.whole, Counted(check.doc, check.mode, found),
               check' = [at |-> "open", mode |-> check.mode, alone |-> TRUE,
                         doc |-> Annotated(check.doc, check.mode, found)]
        PROVE  check' \in CheckStates
    <3>1. check.doc \in FitDocs
      BY <2>1, <2>3 DEF Broken
    <3>2. check' \in Ready /\ (check'.mode # "redo" => ~Needs(check'.doc))
      BY <2>1, <2>3, <3>1, AnnotatedFits DEF Ready
    <3> QED BY <3>2 DEF CheckStates
  <2>4. ASSUME NEW found \in BOOLEAN, check.doc.whole, ~Counted(check.doc, check.mode, found),
               CheckExits(3)
        PROVE  check' \in CheckStates
    <3>1. check.mode = "redo" \/ ~Needs(check.doc)
      BY <2>1, <2>4 DEF Counted, ToDo, Needs, Modes
    <3> QED BY <2>1, <2>4, <3>1, CheckExit
  <2>5. check' \in CheckStates
    BY <1>5, <2>2, <2>3, <2>4 DEF AnnotateText, AnnotateFails
  <2> QED BY <1>5, <2>5 DEF AnnotateText, AnnotateFails, CheckElse
<1>6. CASE OpenChecked
  <2>1. check \in Ready /\ (check.mode # "redo" => ~Needs(check.doc))
    BY <1>6 DEF OpenChecked, CheckStates, Blank, Exited
  <2>2. check' \in Ready /\ check'.mode = check.mode /\ check'.doc = check.doc
    BY <1>6, <2>1 DEF OpenChecked, Opened, Ready
  <2> QED BY <1>6, <2>1, <2>2 DEF OpenChecked, CheckStates
<1>7. CASE FillChecked
  <2>1. check \in Ready /\ (check.mode # "redo" => ~Needs(check.doc))
    BY <1>7 DEF FillChecked, Writing, CheckStates, Blank, Exited
  <2>2. check.doc.whole /\ check.doc \in FitDocs /\ check.mode \in Modes
    BY <2>1 DEF Ready, FitDocs, Docs
  <2>3. check' \in CheckStates
    BY <1>7, <2>1, <2>2, CheckExit DEF FillChecked
  <2>4. digest' \in FitDocs \cup {Broken}
    BY <1>7, <2>2, OutcomesFit DEF FillChecked
  <2> QED BY <1>7, <2>3, <2>4, Disturbed DEF FillChecked
<1> QED
  BY <1>1, <1>2, <1>3, <1>4, <1>5, <1>6, <1>7 DEF CheckWorks

LEMMA EditsStep == ASSUME EditInv, [EditsNext]_editVars PROVE EditInv'
<1>1. CASE EditFront
  BY <1>1 DEF EditInv, EditFront, Blocks
<1>2. CASE KillEdit
  BY <1>2 DEF EditInv, KillEdit, ExtractionStates, CheckStates, RefreshStates
<1>3. CASE UNCHANGED editVars
  BY <1>3 DEF EditInv, editVars
<1> QED
  BY <1>1, <1>2, <1>3, ExtractionStep, RefreshStep, CheckStep DEF EditsNext

\* Whatever overtakes what, a verdict is its own claim's, an edited record block has its
\* curation, and an exit code of check that is no failure means that no claim is left.
THEOREM EditsAlwaysAccounted == EditsSpec => []EditsAreAccounted
<1>1. ASSUME EditInv PROVE EditsAreAccounted
  <2>1. VerdictsFitTheirClaims
    BY <1>1 DEF EditInv, VerdictsFitTheirClaims, FitDocs, Fits, Broken
  <2>2. CheckExitTells
    BY <1>1 DEF EditInv, CheckExitTells, CheckStates, Blank, Ready, Exited
  <2> QED BY <2>1, <2>2 DEF EditsAreAccounted
<1> QED BY <1>1, EditsInitial, EditsStep, PTL DEF EditsSpec

--------------------------------------------------------------------------------
(* Health. *)

Kinds == ToSet(Passes)
Keys == Kinds \X Records \X Nat \X Nat

\* What a result that is kept for a key is.
Meant(k) == Compute(k[1], k[2], k[3], k[4])

\* The caches that give for each key what computing it would.
TrueCaches == {[k \in K |-> Meant(k)] : K \in SUBSET Keys}

Kept == [input : Keys \cup {<<>>}, version : Nat]

Places == {"idle", "manifest", "registry", "caching", "examining", "saving", "told"}

ReportType ==
    [at : Places, version : Nat, loaded : [Records -> Kept], manifest : Nat,
     registry : SUBSET Nat, passes : Seq(Kinds), cache : TrueCaches, seen : [Records -> Nat],
     binding : [Records -> {"none", "invalid", "current", "prep_version", "record_changed"}]]

BatchType ==
    [at : {"idle", "call", "sync", "open", "write"}, version : Nat, todo : SUBSET Records,
     texts : [Records -> Nat]]

HealthTypeOK ==
    /\ text \in [Records -> Nat] /\ version \in Nat /\ manifest \in Nat /\ registry \in SUBSET Nat
    /\ digests \in [Records -> Kept] /\ cache \in TrueCaches
    /\ reports \in [Readers -> ReportType] /\ batch \in BatchType

\* The digests that a report may have are no newer than the sidecars.
Behind(files, m, g) == \A r \in Records : files[r].version <= m /\ files[r].version \in g

SidecarsInv ==
    /\ 0 \in registry /\ Behind(digests, manifest, registry)
    /\ batch.at \in {"open", "write"} => batch.version <= manifest /\ batch.version \in registry
    /\ \A h \in Reporters :
           LET p == reports[h]
           IN  /\ p.at = "manifest" => Behind(p.loaded, manifest, registry)
               /\ p.at = "registry" => Behind(p.loaded, p.manifest, registry)
               /\ p.at \in {"caching", "examining", "saving", "told"} =>
                      Behind(p.loaded, p.manifest, p.registry)

\* A report that has not begun has no binding, and one that has has passes to make.
ProgressInv ==
    \A h \in Readers :
        LET p == reports[h]
        IN  /\ p.at = "idle" => \A r \in Records : p.binding[r] = "none"
            /\ p.at \in {"manifest", "registry", "caching", "examining", "saving"} =>
                   p.passes # <<>>

HealthInv == HealthTypeOK /\ SidecarsInv /\ ProgressInv /\ CurrentIsCurrent

\* Every process of a reader has the prepared text among its kinds of result.
LEMMA KindsHavePrepared ==
    /\ "pdsha" \in Kinds /\ Passes \in Seq(Kinds) /\ Passes # <<>> /\ <<"pdsha">> \in Seq(Kinds)
    /\ <<"pdsha">> # <<>>
<1>1. "pdsha" \in Kinds /\ Passes \in Seq(Kinds)
  BY HealthAssumption DEF Kinds
<1>2. Passes # <<>>
  BY HealthAssumption DEF ToSet
<1> QED BY <1>1, <1>2

\* What is computed for a key is one.
LEMMA ComputeType ==
    ASSUME NEW pass \in Kinds, NEW r \in Records, NEW t \in Nat, NEW v \in Nat
    PROVE  /\ Key(pass, r, t, v) \in Keys
           /\ Meant(Key(pass, r, t, v)) = Compute(pass, r, t, v)
           /\ Compute(pass, r, t, v) \in Keys
           /\ Materialise(r, t, v) \in Keys
<1>1. Materialise(r, t, v) \in Keys
  BY KindsHavePrepared DEF Materialise, Keys
<1>2. Compute(pass, r, t, v) \in Keys
  BY <1>1 DEF Compute, Keys
<1>3. Key(pass, r, t, v) \in Keys
  BY DEF Key, Keys
<1>4. Meant(Key(pass, r, t, v)) = Compute(pass, r, t, v)
  BY DEF Meant, Key
<1> QED BY <1>1, <1>2, <1>3, <1>4

\* What a cache keeps is what its keys mean.
LEMMA InCache ==
    ASSUME NEW c \in TrueCaches
    PROVE  DOMAIN c \in SUBSET Keys /\ \A k \in DOMAIN c : c[k] = Meant(k)
<1> PICK K \in SUBSET Keys : c = [k \in K |-> Meant(k)]
  BY DEF TrueCaches
<1> QED OBVIOUS

\* An empty cache keeps nothing wrong.
LEMMA EmptyCache == <<>> \in TrueCaches
<1>1. <<>> = [k \in {} |-> Meant(k)]
  BY SMT
<1>2. {} \in SUBSET Keys
  OBVIOUS
<1> QED BY <1>1, <1>2 DEF TrueCaches

\* A fresh store has nothing ahead of its sidecars, and nobody has said anything.
LEMMA InitHealth == HealthInit => HealthInv
<1> SUFFICES ASSUME HealthInit PROVE HealthInv
  OBVIOUS
<1>1. Torn \in Kept
  BY DEF Torn, Kept
<1>2. [r \in Records |-> Torn] \in [Records -> Kept] /\ [r \in Records |-> 0] \in [Records -> Nat]
  BY <1>1
<1>3. <<>> \in Seq(Kinds) /\ {} \in SUBSET Nat
  OBVIOUS
<1>4. [r \in Records |-> "none"]
          \in [Records -> {"none", "invalid", "current", "prep_version", "record_changed"}]
  OBVIOUS
<1>5. Idle \in ReportType
  BY <1>2, <1>3, <1>4, EmptyCache DEF Idle, ReportType, Places
<1>6. NoBatch \in BatchType
  BY DEF NoBatch, BatchType
<1>7. ASSUME NEW r \in Records PROVE [input |-> Materialise(r, 0, 0), version |-> 0] \in Kept
  <2>1. Materialise(r, 0, 0) \in Keys
    BY KindsHavePrepared, ComputeType
  <2> QED BY <2>1 DEF Kept
<1>8. HealthTypeOK
  BY <1>5, <1>6, <1>7, EmptyCache DEF HealthTypeOK, HealthInit
<1>9. ASSUME NEW h \in Readers PROVE reports[h] = Idle
  BY <1>9 DEF HealthInit
<1>10. SidecarsInv
  <2>1. Behind(digests, manifest, registry) /\ 0 \in registry /\ batch.at = "idle"
    BY DEF HealthInit, Behind, NoBatch
  <2>2. ASSUME NEW h \in Reporters PROVE reports[h].at = "idle"
    BY <1>9, <2>2 DEF Readers, Idle
  <2> QED BY <2>1, <2>2 DEF SidecarsInv
<1>11. ProgressInv /\ CurrentIsCurrent
  BY <1>9 DEF ProgressInv, CurrentIsCurrent, Idle
<1> QED BY <1>8, <1>10, <1>11 DEF HealthInv

\* A step of a report is of no other report.
LEMMA AdvanceFacts ==
    ASSUME HealthTypeOK, NEW h \in Readers, NEW p \in ReportType, Advance(h, p)
    PROVE  /\ reports' \in [Readers -> ReportType] /\ reports'[h] = p
           /\ \A g \in Readers : g # h => reports'[g] = reports[g]
  BY DEF Advance, HealthTypeOK

\* What a report has after each of its steps: of load_digests the digests, and no binding
\* yet.
LEMMA LoadFacts ==
    ASSUME HealthTypeOK, NEW h \in Readers, Load(h)
    PROVE  /\ reports' \in [Readers -> ReportType]
           /\ \A g \in Readers : g # h => reports'[g] = reports[g]
           /\ reports[h].at = "idle" /\ reports'[h].passes # <<>>
           /\ reports'[h].at = IF h = Stale THEN "caching" ELSE "manifest"
           /\ reports'[h].loaded = digests /\ reports'[h].binding = reports[h].binding
<1> DEFINE p == [reports[h] EXCEPT !.at = IF h = Stale THEN "caching" ELSE "manifest",
                                   !.version = version, !.loaded = digests,
                                   !.passes = IF h = Stale THEN <<"pdsha">> ELSE Passes]
<1>1. reports[h] \in ReportType
  BY DEF HealthTypeOK
<1>2. p \in ReportType
  BY <1>1, KindsHavePrepared DEF HealthTypeOK, ReportType, Places
<1>3. /\ p.at = IF h = Stale THEN "caching" ELSE "manifest"
      /\ p.loaded = digests /\ p.binding = reports[h].binding /\ p.passes # <<>>
  BY <1>1, KindsHavePrepared DEF ReportType
<1>4. Advance(h, p) /\ reports[h].at = "idle"
  BY DEF Load
<1> HIDE DEF p
<1> QED BY <1>2, <1>3, <1>4, AdvanceFacts

\* Of the manifest, its generation.
LEMMA ReadsManifestFacts ==
    ASSUME HealthTypeOK, NEW h \in Readers, ReadsManifest(h)
    PROVE  /\ reports' \in [Readers -> ReportType]
           /\ \A g \in Readers : g # h => reports'[g] = reports[g]
           /\ reports[h].at = "manifest" /\ reports'[h].at = "registry"
           /\ reports'[h].manifest = manifest /\ reports'[h].loaded = reports[h].loaded
           /\ reports'[h].binding = reports[h].binding /\ reports'[h].seen = reports[h].seen
           /\ reports'[h].version = reports[h].version /\ reports'[h].passes = reports[h].passes
<1> DEFINE p == [reports[h] EXCEPT !.at = "registry", !.manifest = manifest]
<1>1. reports[h] \in ReportType
  BY DEF HealthTypeOK
<1>2. p \in ReportType
  BY <1>1 DEF HealthTypeOK, ReportType, Places
<1>3. /\ p.at = "registry" /\ p.manifest = manifest /\ p.loaded = reports[h].loaded
      /\ p.binding = reports[h].binding /\ p.seen = reports[h].seen
      /\ p.version = reports[h].version /\ p.passes = reports[h].passes
  BY <1>1 DEF ReportType
<1>4. Advance(h, p) /\ reports[h].at = "manifest"
  BY DEF ReadsManifest
<1> HIDE DEF p
<1> QED BY <1>2, <1>3, <1>4, AdvanceFacts DEF p

\* Of the registry, its configurations.
LEMMA ReadsRegistryFacts ==
    ASSUME HealthTypeOK, NEW h \in Readers, ReadsRegistry(h)
    PROVE  /\ reports' \in [Readers -> ReportType]
           /\ \A g \in Readers : g # h => reports'[g] = reports[g]
           /\ reports[h].at = "registry" /\ reports'[h].at = "caching"
           /\ reports'[h].registry = registry /\ reports'[h].manifest = reports[h].manifest
           /\ reports'[h].loaded = reports[h].loaded
           /\ reports'[h].binding = reports[h].binding /\ reports'[h].seen = reports[h].seen
           /\ reports'[h].version = reports[h].version /\ reports'[h].passes = reports[h].passes
<1> DEFINE p == [reports[h] EXCEPT !.at = "caching", !.registry = registry]
<1>1. reports[h] \in ReportType
  BY DEF HealthTypeOK
<1>2. p \in ReportType
  BY <1>1 DEF HealthTypeOK, ReportType, Places
<1>3. /\ p.at = "caching" /\ p.registry = registry /\ p.manifest = reports[h].manifest
      /\ p.loaded = reports[h].loaded
      /\ p.binding = reports[h].binding /\ p.seen = reports[h].seen
      /\ p.version = reports[h].version /\ p.passes = reports[h].passes
  BY <1>1 DEF ReportType
<1>4. Advance(h, p) /\ reports[h].at = "registry"
  BY DEF ReadsRegistry
<1> HIDE DEF p
<1> QED BY <1>2, <1>3, <1>4, AdvanceFacts

\* What is compared stays while the cache is loaded and saved.
Same(p, q) ==
    /\ q.version = p.version /\ q.loaded = p.loaded /\ q.manifest = p.manifest
    /\ q.registry = p.registry /\ q.seen = p.seen /\ q.binding = p.binding

\* Of the cache, its entries; what is compared stays.
LEMMA LoadCacheFacts ==
    ASSUME HealthTypeOK, NEW h \in Readers, LoadCache(h)
    PROVE  /\ reports' \in [Readers -> ReportType]
           /\ \A g \in Readers : g # h => reports'[g] = reports[g]
           /\ reports[h].at = "caching" /\ reports'[h].at = "examining"
           /\ Same(reports[h], reports'[h]) /\ reports'[h].passes = reports[h].passes
<1> DEFINE p == [reports[h] EXCEPT !.at = "examining", !.cache = cache]
<1>1. reports[h] \in ReportType
  BY DEF HealthTypeOK
<1>2. p \in ReportType
  BY <1>1 DEF HealthTypeOK, ReportType, Places
<1>3. p.at = "examining" /\ Same(reports[h], p) /\ p.passes = reports[h].passes
  BY <1>1 DEF ReportType, Same
<1>4. Advance(h, p) /\ reports[h].at = "caching"
  BY DEF LoadCache
<1> HIDE DEF p
<1> QED BY <1>2, <1>3, <1>4, AdvanceFacts

\* What is left of the passes.
LEMMA PassesLeft ==
    ASSUME NEW s \in Seq(Kinds), s # <<>>
    PROVE  Tail(s) \in Seq(Kinds) /\ (Len(s) > 1 => Tail(s) # <<>>)
<1>1. Tail(s) \in Seq(Kinds) /\ Len(Tail(s)) = Len(s) - 1 /\ Len(s) \in Nat
  OBVIOUS
<1>2. \A q : q = <<>> => Len(q) = 0
  OBVIOUS
<1>3. Len(s) > 1 => Len(Tail(s)) # 0
  BY <1>1
<1> QED BY <1>1, <1>2, <1>3, Zenon

\* A saved cache is true, and a pass is done.
LEMMA SaveCacheFacts ==
    ASSUME HealthTypeOK, NEW h \in Readers, SaveCache(h), reports[h].passes # <<>>
    PROVE  /\ reports' \in [Readers -> ReportType] /\ cache' \in TrueCaches
           /\ \A g \in Readers : g # h => reports'[g] = reports[g]
           /\ reports[h].at = "saving" /\ Same(reports[h], reports'[h])
           /\ reports'[h].at \in {"caching", "told"}
           /\ reports'[h].at = "caching" => reports'[h].passes # <<>>
<1> DEFINE p == [reports[h] EXCEPT !.passes = Tail(@), !.cache = <<>>,
                     !.at = IF Len(reports[h].passes) > 1 THEN "caching" ELSE "told"]
<1>1. reports[h] \in ReportType /\ reports[h].passes \in Seq(Kinds)
  BY DEF HealthTypeOK, ReportType
<1>2. /\ Tail(reports[h].passes) \in Seq(Kinds)
      /\ Len(reports[h].passes) > 1 => Tail(reports[h].passes) # <<>>
  BY <1>1, PassesLeft
<1>3. p \in ReportType
  BY <1>1, <1>2, EmptyCache DEF ReportType, Places
<1>4. /\ p.at = IF Len(reports[h].passes) > 1 THEN "caching" ELSE "told"
      /\ p.passes = Tail(reports[h].passes) /\ Same(reports[h], p)
  BY <1>1 DEF ReportType, Same
<1>5. Advance(h, p) /\ reports[h].at = "saving" /\ cache' = reports[h].cache
  BY DEF SaveCache
<1>6. cache' \in TrueCaches
  BY <1>1, <1>5 DEF ReportType
<1> HIDE DEF p
<1> QED BY <1>2, <1>3, <1>4, <1>5, <1>6, AdvanceFacts

\* Whoever wrote the cache, a result is what computing it would give.
LEMMA ResultIsTrue ==
    ASSUME HealthTypeOK, NEW h \in Readers, reports[h].passes # <<>>, NEW r \in Records
    PROVE  /\ Result(h, r) = Compute(Head(reports[h].passes), r, text[r], reports[h].version)
           /\ KeyNow(h, r) \in Keys /\ Result(h, r) = Meant(KeyNow(h, r))
<1>1. /\ reports[h].passes \in Seq(Kinds) /\ reports[h].version \in Nat /\ text[r] \in Nat
      /\ reports[h].cache \in TrueCaches
  BY DEF HealthTypeOK, ReportType
<1>2. Head(reports[h].passes) \in Kinds
  BY <1>1
<1>3. /\ KeyNow(h, r) \in Keys
      /\ Meant(KeyNow(h, r)) = Compute(Head(reports[h].passes), r, text[r], reports[h].version)
  BY <1>1, <1>2, ComputeType DEF KeyNow
<1>4. CASE KeyNow(h, r) \in DOMAIN reports[h].cache
  <2>1. Result(h, r) = reports[h].cache[KeyNow(h, r)]
    BY <1>4 DEF Result, KeyNow
  <2> QED BY <1>1, <1>3, <1>4, <2>1, InCache
<1>5. CASE KeyNow(h, r) \notin DOMAIN reports[h].cache
  BY <1>3, <1>5 DEF Result, KeyNow
<1> QED BY <1>3, <1>4, <1>5

\* An examined pass adds true results to the cache and, for the prepared text, the bindings.
LEMMA ExamineFacts ==
    ASSUME HealthTypeOK, NEW h \in Readers, Examine(h), reports[h].passes # <<>>
    PROVE  /\ reports' \in [Readers -> ReportType]
           /\ \A g \in Readers : g # h => reports'[g] = reports[g]
           /\ reports[h].at = "examining" /\ reports'[h].at = "saving"
           /\ reports'[h].passes = reports[h].passes /\ reports'[h].version = reports[h].version
           /\ reports'[h].loaded = reports[h].loaded /\ reports'[h].manifest = reports[h].manifest
           /\ reports'[h].registry = reports[h].registry
           /\ \/ Same(reports[h], reports'[h])
              \/ /\ Head(reports[h].passes) = "pdsha" /\ reports'[h].seen = text
                 /\ reports'[h].binding = [r \in Records |-> Binding(h, r)]
<1> DEFINE q == reports[h]
           Entries == {r \in Records : Head(q.passes) # "pdsha" \/ q.loaded[r] # Torn}
           Found == {KeyNow(h, r) : r \in Entries}
           file == [key \in Found \cup DOMAIN q.cache |->
                       IF key \in Found THEN Result(h, CHOOSE r \in Entries : key = KeyNow(h, r))
                       ELSE q.cache[key]]
           seen == IF Head(q.passes) = "pdsha" THEN text ELSE q.seen
           binding == IF Head(q.passes) = "pdsha" THEN [r \in Records |-> Binding(h, r)]
                      ELSE q.binding
           p == [q EXCEPT !.at = "saving", !.cache = file, !.seen = seen, !.binding = binding]
<1>1. q \in ReportType /\ q.cache \in TrueCaches /\ q.seen \in [Records -> Nat]
  BY DEF HealthTypeOK, ReportType
<1>2. file \in TrueCaches
  <2> DEFINE K == Found \cup DOMAIN q.cache
  <2>1. K \in SUBSET Keys
    BY <1>1, ResultIsTrue, InCache
  <2>2. ASSUME NEW key \in K PROVE file[key] = Meant(key)
    <3>1. CASE key \in Found
      <4> DEFINE s == CHOOSE r \in Entries : key = KeyNow(h, r)
      <4>1. s \in Entries /\ key = KeyNow(h, s)
        BY <3>1
      <4>2. file[key] = Result(h, s)
        BY <3>1
      <4> QED BY <4>1, <4>2, ResultIsTrue
    <3>2. CASE key \notin Found
      <4>1. key \in DOMAIN q.cache /\ file[key] = q.cache[key]
        BY <3>2
      <4> QED BY <1>1, <4>1, InCache
    <3> QED BY <3>1, <3>2
  <2>3. file = [key \in K |-> file[key]]
    OBVIOUS
  <2> HIDE DEF file, K
  <2>4. file = [key \in K |-> Meant(key)]
    BY <2>2, <2>3
  <2> QED BY <2>1, <2>4 DEF TrueCaches
<1>3. seen \in [Records -> Nat]
  BY <1>1 DEF HealthTypeOK
<1>4. binding \in [Records -> {"none", "invalid", "current", "prep_version", "record_changed"}]
  <2>1. \A r \in Records : Binding(h, r) \in {"invalid", "current", "prep_version", "record_changed"}
    BY DEF Binding
  <2> QED BY <1>1, <2>1 DEF ReportType
<1>5. Advance(h, p) /\ q.at = "examining"
  BY DEF Examine
<1> HIDE DEF file, seen, binding
<1>6. p \in ReportType
  BY <1>1, <1>2, <1>3, <1>4 DEF ReportType, Places
<1>7. /\ p.at = "saving" /\ p.passes = q.passes /\ p.version = q.version /\ p.loaded = q.loaded
      /\ p.manifest = q.manifest /\ p.registry = q.registry /\ p.seen = seen /\ p.binding = binding
  BY <1>1 DEF ReportType
<1>8. reports' \in [Readers -> ReportType] /\ reports'[h] = p
      /\ \A g \in Readers : g # h => reports'[g] = reports[g]
  <2> HIDE DEF p
  <2> QED BY <1>5, <1>6, AdvanceFacts
<1>9. CASE Head(q.passes) = "pdsha"
  <2>1. seen = text /\ binding = [r \in Records |-> Binding(h, r)]
    BY <1>9 DEF seen, binding
  <2> QED BY <1>5, <1>7, <1>8, <1>9, <2>1
<1>10. CASE Head(q.passes) # "pdsha"
  <2>1. seen = q.seen /\ binding = q.binding
    BY <1>10 DEF seen, binding
  <2> QED BY <1>5, <1>7, <1>8, <2>1 DEF Same
<1> QED BY <1>9, <1>10

\* What BeginBatch and the batch's own steps leave in the batch.
LEMMA BatchFacts ==
    ASSUME HealthTypeOK, BatchStep \/ KilledBatch
    PROVE  batch' \in BatchType
<1> USE DEF HealthTypeOK
<1>1. NoBatch \in BatchType
  BY DEF NoBatch, BatchType
<1>2. CASE BeginBatch
  <2>1. Listed \in SUBSET Records
    BY DEF Listed
  <2>2. [at |-> "call", version |-> version, todo |-> Listed, texts |-> text] \in BatchType
    BY <2>1 DEF BatchType
  <2> QED BY <1>1, <1>2, <2>2 DEF BeginBatch
<1>3. CASE Call
  BY <1>1, <1>3 DEF Call, BatchType
<1>4. CASE Synchronise
  BY <1>4 DEF Synchronise, BatchType
<1>5. CASE Truncate
  BY <1>5 DEF Truncate, BatchType
<1>6. CASE Fill
  <2>1. batch' = NoBatch \/ batch' = [batch EXCEPT !.at = "call", !.todo = @ \ {Now}]
    BY <1>6 DEF Fill
  <2>2. [batch EXCEPT !.at = "call", !.todo = @ \ {Now}] \in BatchType
    BY DEF BatchType
  <2> QED BY <1>1, <2>1, <2>2
<1>7. CASE KilledBatch
  BY <1>1, <1>7 DEF KilledBatch
<1> QED BY <1>2, <1>3, <1>4, <1>5, <1>6, <1>7 DEF BatchStep

\* The manifest never goes back, and the configuration of the batch is registered.
LEMMA SynchroniseFacts ==
    ASSUME HealthTypeOK, SidecarsInv, Synchronise
    PROVE  /\ manifest' \in Nat /\ manifest <= manifest' /\ batch.version <= manifest'
           /\ registry' \in SUBSET Nat /\ registry \subseteq registry' /\ batch.version \in registry'
           /\ batch'.at = "open" /\ batch'.version = batch.version
           /\ UNCHANGED <<text, version, digests, cache, reports>>
<1>1. batch.version \in Nat /\ manifest \in Nat /\ registry \in SUBSET Nat /\ batch \in BatchType
  BY DEF HealthTypeOK, BatchType
<1>2. manifest' = Max({manifest, batch.version}) /\ registry' = registry \cup {batch.version}
  BY DEF Synchronise
<1>3. /\ Max({manifest, batch.version}) \in Nat
      /\ manifest <= Max({manifest, batch.version}) /\ batch.version <= Max({manifest, batch.version})
  <2>1. CASE manifest >= batch.version
    <3>1. Max({manifest, batch.version}) = manifest
      BY <1>1, <2>1 DEF Max
    <3> QED BY <1>1, <2>1, <3>1
  <2>2. CASE batch.version >= manifest
    <3>1. Max({manifest, batch.version}) = batch.version
      BY <1>1, <2>2 DEF Max
    <3> QED BY <1>1, <2>2, <3>1
  <2> QED BY <1>1, <2>1, <2>2
<1>4. batch'.at = "open" /\ batch'.version = batch.version
  BY <1>1 DEF Synchronise, BatchType
<1>5. UNCHANGED <<text, version, digests, cache, reports>>
  BY DEF Synchronise, Other
<1> QED BY <1>1, <1>2, <1>3, <1>4, <1>5

\* What is written of a record.
LEMMA WrittenType ==
    ASSUME HealthTypeOK, NEW r \in Records
    PROVE  [version |-> batch.version, input |-> Materialise(r, batch.texts[r], batch.version)] \in Kept
<1>1. batch.version \in Nat /\ batch.texts[r] \in Nat
  BY DEF HealthTypeOK, BatchType
<1>2. Materialise(r, batch.texts[r], batch.version) \in Keys
  BY <1>1, KindsHavePrepared, ComputeType
<1> QED BY <1>1, <1>2 DEF Kept

\* Every step keeps every variable in its type, and every cache true.
LEMMA HealthTypeStep ==
    HealthInv /\ [HealthNext]_healthVars => HealthTypeOK'
<1> SUFFICES ASSUME HealthInv, [HealthNext]_healthVars PROVE HealthTypeOK'
  OBVIOUS
<1>0. HealthTypeOK /\ SidecarsInv /\ ProgressInv
  BY DEF HealthInv
<1>1. CASE BatchStep \/ KilledBatch
  <2>1. batch' \in BatchType
    BY <1>0, <1>1, BatchFacts
  <2>2. reports' \in [Readers -> ReportType] /\ UNCHANGED <<text, version, cache>>
    <3>1. CASE BeginBatch
      <4>1. Idle \in ReportType
        <5>1. Torn \in Kept
          BY DEF Torn, Kept
        <5>2. [r \in Records |-> Torn] \in [Records -> Kept] /\ [r \in Records |-> 0] \in [Records -> Nat]
          BY <5>1
        <5> QED BY <5>2, EmptyCache DEF Idle, ReportType, Places
      <4> QED BY <1>0, <3>1, <4>1 DEF BeginBatch, HealthTypeOK
    <3>2. CASE ~BeginBatch
      BY <1>0, <1>1, <3>2 DEF BatchStep, Call, Synchronise, Truncate, Fill, KilledBatch, Other, HealthTypeOK
    <3> QED BY <3>1, <3>2
  <2>3. manifest' \in Nat /\ registry' \in SUBSET Nat
    <3>1. CASE Synchronise
      BY <1>0, <3>1, SynchroniseFacts
    <3>2. CASE ~Synchronise
      BY <1>0, <1>1, <3>2 DEF BatchStep, BeginBatch, Call, Truncate, Fill, KilledBatch, HealthTypeOK
    <3> QED BY <3>1, <3>2
  <2>4. digests' \in [Records -> Kept]
    <3>1. CASE Truncate
      <4>1. Torn \in Kept
        BY DEF Torn, Kept
      <4> QED BY <1>0, <3>1, <4>1 DEF Truncate, HealthTypeOK
    <3>2. CASE Fill
      <4>1. digests' = [digests EXCEPT ![Now] = [version |-> batch.version,
                            input |-> Materialise(Now, batch.texts[Now], batch.version)]]
        BY <3>2 DEF Fill
      <4>2. CASE Now \in Records
        BY <1>0, <4>1, <4>2, WrittenType DEF HealthTypeOK
      <4>3. CASE Now \notin Records
        BY <1>0, <4>1, <4>3 DEF HealthTypeOK
      <4> QED BY <4>2, <4>3
    <3>3. CASE ~Truncate /\ ~Fill
      BY <1>0, <1>1, <3>3 DEF BatchStep, BeginBatch, Call, Synchronise, KilledBatch, HealthTypeOK
    <3> QED BY <3>1, <3>2, <3>3
  <2> QED BY <1>0, <2>1, <2>2, <2>3, <2>4 DEF HealthTypeOK
<1>2. CASE Deploy
  BY <1>0, <1>2 DEF Deploy, HealthTypeOK
<1>3. ASSUME NEW r \in Records, Edit(r) PROVE HealthTypeOK'
  <2>1. /\ text' = [text EXCEPT ![r] = @ + 1]
        /\ UNCHANGED <<version, digests, manifest, registry, cache, reports, batch>>
    BY <1>3 DEF Edit
  <2> QED BY <1>0, <2>1 DEF HealthTypeOK
<1>4. ASSUME NEW h \in Readers, ReportStep(h) PROVE HealthTypeOK'
  <2>1. UNCHANGED <<text, version, digests, manifest, registry, batch>>
    BY <1>4 DEF ReportStep, Load, ReadsManifest, ReadsRegistry, LoadCache, Examine, SaveCache, Untouched
  <2>2. cache' = cache \/ SaveCache(h)
    BY <1>4 DEF ReportStep, Load, ReadsManifest, ReadsRegistry, LoadCache, Examine
  <2>3. reports' \in [Readers -> ReportType] /\ cache' \in TrueCaches
    <3>1. CASE Examine(h)
      <4>1. reports[h].passes # <<>>
        BY <1>0, <3>1 DEF Examine, ProgressInv
      <4> QED BY <1>0, <3>1, <4>1, ExamineFacts DEF Examine, HealthTypeOK
    <3>2. CASE SaveCache(h)
      <4>1. reports[h].passes # <<>>
        BY <1>0, <3>2 DEF SaveCache, ProgressInv
      <4> QED BY <1>0, <3>2, <4>1, SaveCacheFacts
    <3>3. CASE Load(h)
      BY <1>0, <3>3, LoadFacts DEF Load, HealthTypeOK
    <3>4. CASE ReadsManifest(h)
      BY <1>0, <3>4, ReadsManifestFacts DEF ReadsManifest, HealthTypeOK
    <3>5. CASE ReadsRegistry(h)
      BY <1>0, <3>5, ReadsRegistryFacts DEF ReadsRegistry, HealthTypeOK
    <3>6. CASE LoadCache(h)
      BY <1>0, <3>6, LoadCacheFacts DEF LoadCache, HealthTypeOK
    <3> QED BY <1>4, <3>1, <3>2, <3>3, <3>4, <3>5, <3>6 DEF ReportStep
  <2> QED BY <1>0, <2>1, <2>3 DEF HealthTypeOK
<1>5. CASE UNCHANGED healthVars
  BY <1>0, <1>5 DEF healthVars, HealthTypeOK
<1> QED BY <1>1, <1>2, <1>3, <1>4, <1>5 DEF HealthNext

\* No digest gets ahead of the sidecars, and no report loads one that is.
LEMMA SidecarsStep ==
    HealthInv /\ [HealthNext]_healthVars => SidecarsInv'
<1> SUFFICES ASSUME HealthInv, [HealthNext]_healthVars PROVE SidecarsInv'
  OBVIOUS
<1>0. HealthTypeOK /\ SidecarsInv /\ ProgressInv
  BY DEF HealthInv
<1>00. /\ manifest \in Nat /\ \A r \in Records : digests[r].version \in Nat
       /\ \A h \in Reporters : /\ h \in Readers /\ h # Stale
                                /\ \A r \in Records : reports[h].loaded[r].version \in Nat
  <2>1. \A p \in ReportType : \A r \in Records : p.loaded[r].version \in Nat
    BY DEF ReportType, Kept
  <2>2. \A r \in Records : digests[r].version \in Nat
    BY <1>0 DEF HealthTypeOK, Kept
  <2>3. \A h \in Reporters : h \in Readers /\ h # Stale
    BY HealthAssumption DEF Readers, Stale
  <2> QED BY <1>0, <2>1, <2>2, <2>3 DEF HealthTypeOK
<1>1. CASE Synchronise
  <2>1. /\ manifest' \in Nat /\ manifest <= manifest' /\ batch.version <= manifest'
        /\ registry \subseteq registry' /\ batch.version \in registry'
        /\ batch'.at = "open" /\ batch'.version = batch.version
        /\ UNCHANGED <<text, version, digests, cache, reports>>
    BY <1>0, <1>1, SynchroniseFacts
  <2>2. Behind(digests, manifest', registry')
    BY <1>0, <1>00, <2>1 DEF SidecarsInv, Behind
  <2>3. ASSUME NEW h \in Reporters, reports[h].at = "manifest"
        PROVE Behind(reports[h].loaded, manifest', registry')
    <3>1. Behind(reports[h].loaded, manifest, registry)
      BY <1>0, <2>3 DEF SidecarsInv
    <3> QED BY <1>00, <2>1, <3>1 DEF Behind
  <2>4. ASSUME NEW h \in Reporters, reports[h].at = "registry"
        PROVE Behind(reports[h].loaded, reports[h].manifest, registry')
    <3>1. Behind(reports[h].loaded, reports[h].manifest, registry)
      BY <1>0, <2>4 DEF SidecarsInv
    <3> QED BY <2>1, <3>1 DEF Behind
  <2> QED BY <1>0, <2>1, <2>2, <2>3, <2>4 DEF SidecarsInv
<1>2. CASE Truncate \/ Fill
  <2>1. UNCHANGED <<manifest, registry, reports>> /\ batch \in BatchType
    BY <1>0, <1>2 DEF Truncate, Fill, Other, HealthTypeOK
  <2>2. Behind(digests', manifest, registry)
    <3>1. CASE Truncate
      <4>1. digests' = [digests EXCEPT ![Now] = Torn] /\ Torn.version = 0
        BY <3>1 DEF Truncate, Torn
      <4> QED BY <1>0, <1>00, <4>1 DEF SidecarsInv, Behind, HealthTypeOK
    <3>2. CASE Fill
      <4>1. /\ digests' = [digests EXCEPT ![Now] = [version |-> batch.version,
                               input |-> Materialise(Now, batch.texts[Now], batch.version)]]
            /\ batch.version <= manifest /\ batch.version \in registry
        BY <1>0, <3>2 DEF Fill, SidecarsInv
      <4>2. ASSUME NEW r \in Records
            PROVE digests'[r].version = digests[r].version \/ digests'[r].version = batch.version
        BY <1>0, <4>1 DEF HealthTypeOK
      <4> QED BY <1>0, <4>1, <4>2 DEF SidecarsInv, Behind
    <3> QED BY <1>2, <3>1, <3>2
  <2>3. ASSUME batch'.at \in {"open", "write"}
        PROVE  batch.at \in {"open", "write"} /\ batch'.version = batch.version
    <3>1. CASE Truncate
      BY <2>1, <3>1 DEF Truncate, BatchType
    <3>2. CASE Fill
      <4>1. batch' = NoBatch \/ batch' = [batch EXCEPT !.at = "call", !.todo = @ \ {Now}]
        BY <3>2 DEF Fill
      <4>2. batch' = NoBatch => batch'.at = "idle"
        BY DEF NoBatch
      <4>3. [batch EXCEPT !.at = "call", !.todo = @ \ {Now}].at = "call"
        BY <2>1 DEF BatchType
      <4> QED BY <2>3, <4>1, <4>2, <4>3
    <3> QED BY <1>2, <3>1, <3>2
  <2> QED BY <1>0, <2>1, <2>2, <2>3 DEF SidecarsInv
<1>3. CASE Call \/ KilledBatch
  <2>1. UNCHANGED <<manifest, registry, reports, digests>> /\ batch'.at \notin {"open", "write"}
    BY <1>0, <1>3 DEF Call, KilledBatch, Other, HealthTypeOK, BatchType, NoBatch
  <2> QED BY <1>0, <2>1 DEF SidecarsInv
<1>4. CASE BeginBatch
  <2>1. UNCHANGED <<manifest, registry, digests>> /\ batch'.at \notin {"open", "write"}
    BY <1>4 DEF BeginBatch, NoBatch
  <2>2. \A h \in Reporters : reports'[h] = reports[h]
    BY <1>0, <1>00, <1>4 DEF BeginBatch, HealthTypeOK
  <2> QED BY <1>0, <2>1, <2>2 DEF SidecarsInv
<1>5. CASE Deploy \/ (\E r \in Records : Edit(r)) \/ UNCHANGED healthVars
  <2>1. UNCHANGED <<manifest, registry, digests, batch, reports>>
    BY <1>5 DEF Deploy, Edit, healthVars
  <2> QED BY <1>0, <2>1 DEF SidecarsInv
<1>6. ASSUME NEW h \in Readers, ReportStep(h) PROVE SidecarsInv'
  <2>1. UNCHANGED <<digests, manifest, registry, batch>>
    BY <1>6 DEF ReportStep, Load, ReadsManifest, ReadsRegistry, LoadCache, Examine, SaveCache, Untouched
  <2> DEFINE Told(p) ==
               /\ p.at = "manifest" => Behind(p.loaded, manifest, registry)
               /\ p.at = "registry" => Behind(p.loaded, p.manifest, registry)
               /\ p.at \in {"caching", "examining", "saving", "told"} =>
                      Behind(p.loaded, p.manifest, p.registry)
  <2>2. \A g \in Reporters : Told(reports[g])
    BY <1>0 DEF SidecarsInv
  <2>3. /\ \A g \in Readers : g # h => reports'[g] = reports[g]
        /\ h \in Reporters => Told(reports'[h])
    <3>1. CASE Load(h)
      <4>1. Behind(digests, manifest, registry)
        BY <1>0 DEF SidecarsInv
      <4> QED BY <1>0, <1>00, <3>1, <4>1, LoadFacts
    <3>2. CASE ReadsManifest(h)
      BY <1>0, <2>2, <3>2, ReadsManifestFacts
    <3>3. CASE ReadsRegistry(h)
      BY <1>0, <2>2, <3>3, ReadsRegistryFacts
    <3>4. CASE LoadCache(h)
      BY <1>0, <2>2, <3>4, LoadCacheFacts DEF Same
    <3>5. CASE Examine(h)
      <4>1. reports[h].passes # <<>>
        BY <1>0, <3>5 DEF Examine, ProgressInv
      <4> QED BY <1>0, <2>2, <3>5, <4>1, ExamineFacts
    <3>6. CASE SaveCache(h)
      <4>1. reports[h].passes # <<>>
        BY <1>0, <3>6 DEF SaveCache, ProgressInv
      <4> QED BY <1>0, <2>2, <3>6, <4>1, SaveCacheFacts DEF Same
    <3> QED BY <1>6, <3>1, <3>2, <3>3, <3>4, <3>5, <3>6 DEF ReportStep
  <2>4. \A g \in Reporters : Told(reports'[g])
    <3> HIDE DEF Told
    <3> QED BY <1>00, <2>2, <2>3
  <2> QED BY <1>0, <2>1, <2>4 DEF SidecarsInv
<1> QED BY <1>1, <1>2, <1>3, <1>4, <1>5, <1>6 DEF HealthNext, BatchStep

\* A report goes on from pass to pass, and what it found current is.
LEMMA ProgressStep ==
    HealthInv /\ [HealthNext]_healthVars => ProgressInv' /\ CurrentIsCurrent'
<1> SUFFICES ASSUME HealthInv, [HealthNext]_healthVars PROVE ProgressInv' /\ CurrentIsCurrent'
  OBVIOUS
<1>0. HealthTypeOK /\ SidecarsInv /\ ProgressInv /\ CurrentIsCurrent
  BY DEF HealthInv
<1> DEFINE Goes(p) == /\ p.at = "idle" => \A r \in Records : p.binding[r] = "none"
                      /\ p.at \in {"manifest", "registry", "caching", "examining", "saving"} =>
                             p.passes # <<>>
           True(p) == \A r \in Records : p.binding[r] = "current" =>
                          p.loaded[r].input = Materialise(r, p.seen[r], p.version)
<1>1. \A g \in Readers : Goes(reports[g]) /\ True(reports[g])
  BY <1>0 DEF ProgressInv, CurrentIsCurrent
<1>2. CASE reports' = reports
  BY <1>0, <1>2 DEF ProgressInv, CurrentIsCurrent
<1>3. CASE BeginBatch
  <2>1. Goes(Idle) /\ True(Idle)
    BY DEF Idle
  <2>2. \A g \in Readers : reports'[g] = reports[g] \/ reports'[g] = Idle
    BY <1>0, <1>3 DEF BeginBatch, HealthTypeOK
  <2>3. \A g \in Readers : Goes(reports'[g]) /\ True(reports'[g])
    <3> HIDE DEF Goes, True
    <3> QED BY <1>1, <2>1, <2>2
  <2> QED BY <2>3 DEF ProgressInv, CurrentIsCurrent
<1>4. ASSUME NEW h \in Readers, ReportStep(h) PROVE ProgressInv' /\ CurrentIsCurrent'
  <2>1. /\ \A g \in Readers : g # h => reports'[g] = reports[g]
        /\ Goes(reports'[h]) /\ True(reports'[h])
    <3>1. CASE Load(h)
      <4>1. \A r \in Records : reports'[h].binding[r] = "none"
        BY <1>0, <1>1, <3>1, LoadFacts
      <4> QED BY <1>0, <3>1, <4>1, LoadFacts
    <3>2. CASE ReadsManifest(h)
      BY <1>0, <1>1, <3>2, ReadsManifestFacts
    <3>3. CASE ReadsRegistry(h)
      BY <1>0, <1>1, <3>3, ReadsRegistryFacts
    <3>4. CASE LoadCache(h)
      BY <1>0, <1>1, <3>4, LoadCacheFacts DEF Same
    <3>5. CASE Examine(h)
      <4>1. reports[h].passes # <<>>
        BY <1>0, <3>5 DEF Examine, ProgressInv
      <4>2. CASE Same(reports[h], reports'[h])
        <5>1. /\ reports'[h].at = "saving" /\ reports'[h].passes = reports[h].passes
              /\ \A g \in Readers : g # h => reports'[g] = reports[g]
          BY <1>0, <3>5, <4>1, ExamineFacts
        <5>2. Goes(reports'[h])
          BY <4>1, <5>1
        <5>3. True(reports'[h])
          BY <1>1, <4>2 DEF Same
        <5> QED BY <5>1, <5>2, <5>3
      <4>3. CASE Head(reports[h].passes) = "pdsha" /\ reports'[h].seen = text
                 /\ reports'[h].binding = [r \in Records |-> Binding(h, r)]
        <5>1. ASSUME NEW r \in Records, reports'[h].binding[r] = "current"
              PROVE reports'[h].loaded[r].input
                        = Materialise(r, reports'[h].seen[r], reports'[h].version)
          <6>1. Binding(h, r) = "current"
            BY <4>3, <5>1
          <6>2. Result(h, r) = reports[h].loaded[r].input
            BY <6>1 DEF Binding
          <6>3. Result(h, r) = Materialise(r, text[r], reports[h].version)
            BY <1>0, <4>1, <4>3, ResultIsTrue DEF Compute
          <6> QED BY <1>0, <3>5, <4>1, <4>3, <6>2, <6>3, ExamineFacts
        <5>2. Goes(reports'[h]) /\ \A g \in Readers : g # h => reports'[g] = reports[g]
          BY <1>0, <3>5, <4>1, ExamineFacts
        <5> QED BY <5>1, <5>2
      <4> QED BY <1>0, <3>5, <4>1, <4>2, <4>3, ExamineFacts
    <3>6. CASE SaveCache(h)
      <4>1. reports[h].passes # <<>>
        BY <1>0, <3>6 DEF SaveCache, ProgressInv
      <4> QED BY <1>0, <1>1, <3>6, <4>1, SaveCacheFacts DEF Same
    <3> QED BY <1>4, <3>1, <3>2, <3>3, <3>4, <3>5, <3>6 DEF ReportStep
  <2>2. \A g \in Readers : Goes(reports'[g]) /\ True(reports'[g])
    <3> HIDE DEF Goes, True
    <3> QED BY <1>1, <2>1
  <2> QED BY <2>2 DEF ProgressInv, CurrentIsCurrent
<1>5. ASSUME ~BeginBatch, \A h \in Readers : ~ReportStep(h) PROVE reports' = reports
  BY <1>5 DEF HealthNext, BatchStep, Call, Synchronise, Truncate, Fill, KilledBatch, Other, Deploy,
              Edit, healthVars
<1> QED BY <1>2, <1>3, <1>4, <1>5

\* What a report says follows.
LEMMA ReportsTold == HealthInv => ReportsAreTrue
<1> SUFFICES ASSUME HealthInv PROVE ReportsAreTrue
  OBVIOUS
<1>1. CurrentIsCurrent
  BY DEF HealthInv
<1>2. ASSUME NEW h \in Reporters, reports[h].at = "told", NEW r \in Records
      PROVE  /\ Generation(reports[h], r) # "generation_ahead"
             /\ Config(reports[h], r) # "unregistered"
  <2> DEFINE d == reports[h].loaded[r]
  <2>1. d.version <= reports[h].manifest /\ d.version \in reports[h].registry
    BY <1>2 DEF HealthInv, SidecarsInv, Behind
  <2>2. d.version \in Nat /\ reports[h].manifest \in Nat
    <3>1. h \in Readers
      BY DEF Readers
    <3>2. reports[h] \in ReportType
      BY <3>1 DEF HealthInv, HealthTypeOK
    <3> QED BY <3>2 DEF ReportType, Kept
  <2>3. Config(reports[h], r) # "unregistered"
    BY <2>1 DEF Config
  <2>4. d.version = reports[h].manifest \/ (d.version < reports[h].manifest /\ d.version # reports[h].manifest)
    BY <2>1, <2>2
  <2>5. ~(d.version > reports[h].manifest)
    BY <2>1, <2>2
  <2>6. Generation(reports[h], r) # "generation_ahead"
    BY <2>4, <2>5 DEF Generation
  <2> QED BY <2>3, <2>6
<1>3. SidecarsAreAhead
  BY <1>2 DEF SidecarsAreAhead
<1>4. ASSUME NEW h \in Reporters, reports[h].at = "told", Findings(reports[h]) = {}, NEW r \in Records
      PROVE  LET d == reports[h].loaded[r]
             IN  /\ d # Torn /\ d.version = reports[h].manifest
                 /\ d.input = Materialise(r, reports[h].seen[r], reports[h].version)
  <2>1. /\ Generation(reports[h], r) = "current" /\ Config(reports[h], r) = "resolvable"
        /\ reports[h].binding[r] = "current"
    BY <1>4 DEF Findings
  <2>2. reports[h].loaded[r] # Torn
    BY <2>1 DEF Config
  <2>3. reports[h].loaded[r].version = reports[h].manifest
    <3>1. reports[h] \in ReportType
      BY DEF HealthInv, HealthTypeOK, Readers
    <3>2. reports[h].loaded[r].version \in Nat /\ reports[h].manifest \in Nat
      BY <3>1 DEF ReportType, Kept
    <3> QED BY <2>1, <2>2, <3>2 DEF Generation
  <2>4. reports[h].loaded[r].input = Materialise(r, reports[h].seen[r], reports[h].version)
    BY <1>1, <2>1 DEF CurrentIsCurrent, Readers
  <2> QED BY <2>2, <2>3, <2>4
<1>5. NoFindingsMeansClean
  BY <1>4 DEF NoFindingsMeansClean
<1> QED BY <1>1, <1>3, <1>5 DEF ReportsAreTrue

\* What a health report says is true, for any records, edits, versions of the code, batches and
\* other reports, all at once: what it calls current is, no digest is ahead of the sidecars, and
\* a report without findings has seen every digest whole and in place.
THEOREM ReportsAreAlwaysTrue == HealthSpec => []ReportsAreTrue
<1>1. HealthInv /\ [HealthNext]_healthVars => HealthInv'
  BY HealthTypeStep, SidecarsStep, ProgressStep DEF HealthInv
<1> QED BY InitHealth, <1>1, ReportsTold, PTL DEF HealthSpec
================================================================================
