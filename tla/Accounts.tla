-------------------------------- MODULE Accounts --------------------------------
(***************************************************************************)
(* workspace/digester/accounts.py: to which telling of a record a claim    *)
(* belongs.  A telling has a place in the record, of which the phrases the *)
(* model gave may find both ends, one or none; a claim has one, which is   *)
(* derived from its timecode, its quote or its location.  An offset is a   *)
(* character of the text the model saw.                                    *)
(***************************************************************************)
EXTENDS Alignment

CONSTANTS
    MaxOffset,      \* bound: the last offset
    MaxTellings,    \* bound: the tellings of a record
    ChapterSets     \* the chapters a record may have

Offsets == 0 .. MaxOffset

ASSUME AccountsAssumption ==
    /\ MaxOffset \in Nat /\ MaxTellings \in Nat
    /\ \A c \in ChapterSets : c \subseteq Offsets

\* Where a telling really is, and which of its ends locate_phrase finds.
Tellings == [start : Offsets, end : Offsets, startFound : BOOLEAN, endFound : BOOLEAN]

\* Tellings follow each other or stand in one another.
Apart(t, u) == t.end < u.start \/ u.end <= t.end

Transcripts ==
    {ts \in BoundedSeq({t \in Tellings : t.start < t.end}, MaxTellings) :
        \A i, j \in DOMAIN ts : i < j => ts[i].start < ts[j].start /\ Apart(ts[i], ts[j])}

\* How a claim's place is found: by a timecode, by its quote, or by the location alone.
Ways == {"timecode", "quote", "location"}

VARIABLES
    tellings,   \* the candidates of the model, in the order of the record
    anchors,    \* build_time_map: the offsets of the words that have a timecode
    chapters,   \* the offsets at which chapters begin
    claim,      \* a claim: where it really stands, and how that is found
    bound       \* the number of the telling it is bound to

accountVars == <<tellings, anchors, chapters, claim, bound>>

Unbound == 0
Outside == MaxTellings + 1

AccountsInit ==
    /\ tellings \in Transcripts
    /\ chapters \in ChapterSets
    /\ anchors \in {{}, Offsets, {a \in Offsets : a % 2 = 0}}
    /\ claim \in [at : Offsets, way : Ways]
    /\ claim.way = "timecode" <=> anchors # {}
    /\ bound = Unbound

\* offset_for_time: the first anchor at or behind the timecode, or the last one.
OffsetForTime(at) ==
    LET Later == {a \in anchors : a >= at} IN IF Later = {} THEN Max(anchors) ELSE Min(Later)

\* position_in_body: by the map of timecodes, by the quote, or by the number that the
\* location begins with, be it of the record or of a chapter.
PositionInBody ==
    CASE claim.way = "timecode" -> OffsetForTime(claim.at)
      [] claim.way = "quote" -> claim.at
      [] claim.way = "location" -> OffsetsToSpan(claim.at, claim.at + 1, chapters).start

\* The middle of the widths of the tellings both ends of which are found: the least that
\* more than half of them do not exceed.
Typical ==
    LET Whole == {i \in DOMAIN tellings : tellings[i].startFound /\ tellings[i].endFound}
        Width(i) == tellings[i].end - tellings[i].start
        NoWider(w) == {i \in Whole : Width(i) <= w}
    IN  IF Whole = {} THEN 0
        ELSE Min({w \in {Width(i) : i \in Whole} :
                      2 * Cardinality(NoWider(w)) > Cardinality(Whole)})

\* MUTANT: the next telling does not end one whose end is missing.
ResolveByWidth(t) ==
    LET Earlier == {u.end : u \in {v \in ToSet(tellings) : v.endFound /\ v.end < t.end}}
        begin == IF t.startFound THEN t.start
                 ELSE IF Earlier # {} THEN Max(Earlier)
                 ELSE IF t.end > Typical THEN t.end - Typical ELSE 0
        finish == IF t.endFound THEN t.end ELSE t.start + Typical
    IN  IF \/ t.startFound /\ t.endFound
           \/ (t.startFound \/ t.endFound) /\ Typical > 0 /\ begin < finish
        THEN {<<begin, finish>>} ELSE {}

\* resolve_all: an end that was not found is taken from the neighbours, the beginning of
\* the next telling or the end of the one before, or from the typical width.
Resolve(t) ==
    LET Later == {u.start : u \in {v \in ToSet(tellings) : v.startFound /\ v.start > t.start}}
        Earlier == {u.end : u \in {v \in ToSet(tellings) : v.endFound /\ v.end < t.end}}
        begin == IF t.startFound THEN t.start
                 ELSE IF Earlier # {} THEN Max(Earlier)
                 ELSE IF t.end > Typical THEN t.end - Typical ELSE 0
        finish == IF t.endFound THEN t.end
                  ELSE IF Later # {} THEN Min(Later) ELSE t.start + Typical
    IN  IF \/ t.startFound /\ t.endFound
           \/ (t.startFound \/ t.endFound) /\ Typical > 0 /\ begin < finish
        THEN {<<begin, finish>>} ELSE {}

\* bind: the narrowest span that contains the claim, the first of several.
Bind ==
    /\ bound = Unbound
    /\ LET Spans == UNION {{[telling |-> i, begin |-> s[1], width |-> s[2] - s[1]] :
                               s \in Resolve(tellings[i])} : i \in DOMAIN tellings}
           Holding == {s \in Spans : s.begin <= PositionInBody /\ PositionInBody <= s.begin + s.width}
           Narrowest == {s \in Holding : \A u \in Holding : s.width <= u.width}
       IN  bound' = IF Holding = {} THEN Outside ELSE Min({s.telling : s \in Narrowest})
    /\ UNCHANGED <<tellings, anchors, chapters, claim>>

AccountsSpec == AccountsInit /\ [][Bind]_accountVars

--------------------------------------------------------------------------------
(* Properties. *)

Inside(i) == tellings[i].start <= claim.at /\ claim.at <= tellings[i].end
Innermost(i) == Inside(i) /\ \A j \in DOMAIN tellings : Inside(j) => j <= i

\* The place the claim is given is the one it has: its timecode is one of the record, and its
\* location alone is not one of a chapter.
Exact ==
    /\ claim.way = "timecode" => claim.at \in anchors
    /\ claim.way = "location" => chapters = {}
Bindable == bound \notin {Unbound, Outside}

\* A claim is bound to the innermost telling it stands in if the ends of all of them are
\* found; and as long as the beginnings are found, a claim of one telling is never bound
\* to an earlier one that had ended, unless it is at the very beginning of its own.
ClaimsFindTheirTelling ==
    Exact /\ Bindable =>
        /\ (\A i \in DOMAIN tellings : tellings[i].startFound /\ tellings[i].endFound)
               => Innermost(bound)
        /\ (\A i \in DOMAIN tellings : tellings[i].startFound)
               => \A i \in DOMAIN tellings :
                      Innermost(i) /\ tellings[bound].end < tellings[i].start
                          => claim.at = tellings[i].start
================================================================================
