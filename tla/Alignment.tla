-------------------------------- MODULE Alignment -------------------------------
(***************************************************************************)
(* workspace/digester/realign.py: where in a record a claim's quote stands, *)
(* found by matching its words, and written to the claim on the axis of    *)
(* the record: a timecode or an offset, of the chapter if there are any.   *)
(* A word's number in the record stands for its time or its offset.        *)
(***************************************************************************)
EXTENDS Naturals, SequencesExt, FiniteSetsExt

CONSTANTS
    Words,                  \* the words there are
    SeedLen,                \* the 4 of _candidate_starts
    MinSlack,               \* the 4 of _score_window
    SpanRatio, SpanSlack,   \* _MAX_GLOBAL_SPAN_RATIO, _MIN_GLOBAL_SPAN_SLACK
    AmbigGap,               \* _AMBIG_GAP_S
    MaxSource, MaxQuote     \* bounds: the words of a record and of a quote

ASSUME AlignmentAssumption ==
    /\ {SeedLen, MinSlack, SpanRatio, SpanSlack, AmbigGap, MaxSource, MaxQuote} \subseteq Nat

NoSpan == [start |-> 0, end |-> 0, matched |-> 0, ambiguous |-> FALSE]
NotLocated == [NoSpan EXCEPT !.end = MaxSource + 1]

\* Where to look for a match: src[r[1] .. r[2]] and qt[r[3] .. r[4]].
Ranges(src, qt) ==
    (1 .. Len(src) + 1) \X (0 .. Len(src)) \X (1 .. Len(qt) + 1) \X (0 .. Len(qt))

\* The blocks src[x[1] .. x[1]+x[3]-1] = qt[x[2] .. x[2]+x[3]-1] in a range.
Common(src, qt, r) ==
    {x \in (r[1] .. r[2]) \X (r[3] .. r[4]) \X (1 .. Len(qt)) :
        /\ x[1] + x[3] - 1 <= r[2] /\ x[2] + x[3] - 1 <= r[4]
        /\ \A n \in 0 .. x[3] - 1 : src[x[1] + n] = qt[x[2] + n]}

\* The longest of them, the earliest of several.
LongestIn(src, qt, r) ==
    {x \in Common(src, qt, r) : \A y \in Common(src, qt, r) :
        x[3] > y[3] \/ (x[3] = y[3] /\ (x[1] < y[1] \/ (x[1] = y[1] /\ x[2] <= y[2])))}

LeftOf(r, x) == <<r[1], x[1] - 1, r[3], x[2] - 1>>
RightOf(r, x) == <<x[1] + x[3], r[2], x[2] + x[3], r[4]>>

\* difflib's get_matching_blocks: the longest block, and the blocks on either side of it.
MatchingBlocks(src, qt) ==
    LET Between[r \in Ranges(src, qt)] ==
            UNION {{x} \cup Between[LeftOf(r, x)] \cup Between[RightOf(r, x)] :
                   x \in LongestIn(src, qt, r)}
    IN  Between[<<1, Len(src), 1, Len(qt)>>]

\* The words of the record that the blocks of a match, if there are any, go over, in a
\* stretch that begins at word i, and how many words of the quote they match.
SpanOf(blocks, i) ==
    {[at |-> i, start |-> i + Min({x[1] : x \in blocks}) - 1,
      end |-> i + Max({x[1] + x[3] - 1 : x \in blocks}) - 1,
      matched |-> Cardinality(UNION {x[2] .. x[2] + x[3] - 1 : x \in blocks})] :
     b \in blocks}

\* _candidate_starts: where the leading words match, one mismatch allowed.
CandidateStarts(qt, src) ==
    LET seed == Min({SeedLen, Len(qt)})
        Hits(i) == {j \in 1 .. seed : src[i + j - 1] = qt[j]}
    IN  {i \in 1 .. Len(src) - seed + 1 : Cardinality(Hits(i)) >= Max({2, seed - 1})}

\* _score_window
ScoreWindow(qt, src, i) ==
    LET window == SubSeq(src, i, Min({Len(src), i + Len(qt) + Max({MinSlack, Len(qt) \div 4}) - 1}))
    IN  SpanOf(MatchingBlocks(window, qt), i)

\* MUTANT: whatever the match of the whole record covers is a span.
GlobalUnbounded(qt, src) == SpanOf(MatchingBlocks(src, qt), 1)

\* The match of the whole record, unless it joins words too far apart.
Global(qt, src) ==
    {s \in SpanOf(MatchingBlocks(src, qt), 1) :
        s.end - s.start + 1 <= Max({Len(qt) * SpanRatio, Len(qt) + SpanSlack})}

\* align_quote: the best of the windows, the first of several, or else the global match;
\* none that leaves half of the quote unmatched.
AlignQuote(qt, src) ==
    LET windows == UNION {ScoreWindow(qt, src, i) : i \in CandidateStarts(qt, src)}
        scored == IF qt = <<>> \/ src = <<>> THEN {}
                  ELSE IF windows # {} THEN windows ELSE Global(qt, src)
        best == {s \in scored : \A t \in scored : s.matched >= t.matched}
        first == CHOOSE s \in best : \A t \in best : s.at <= t.at
        rivals == {t \in scored \ {first} : /\ 20 * (first.matched - t.matched) <= Len(qt)
                                            /\ t.start > first.start + AmbigGap
                                               \/ first.start > t.start + AmbigGap}
    IN  IF scored = {} \/ 2 * first.matched < Len(qt) THEN NoSpan
        ELSE [start |-> first.start, end |-> first.end, matched |-> first.matched,
              ambiguous |-> rivals # {}]

\* chapter_spans and offsets_to_span: the chapter an offset is in, and the offset in it;
\* chapter 0 is the record.  A chapter is the offset it begins at.
OffsetsToSpan(s, e, chapters) ==
    LET Before == {c \in chapters : c <= s}
        base == IF Before = {} THEN 0 ELSE Max(Before)
    IN  [chapter |-> base, start |-> s - base, end |-> Max({e - base, s - base})]

--------------------------------------------------------------------------------
VARIABLES
    source,     \* the words of a record
    quote,      \* the words of a claim's quote, without a speaker's name in front
    located     \* the location the claim is given

alignVars == <<source, quote, located>>

AlignInit ==
    /\ source \in BoundedSeq(Words, MaxSource) /\ quote \in BoundedSeq(Words, MaxQuote)
    /\ located = NotLocated

\* normalise_claim_locations and its untimed twin, for one claim.
Normalise ==
    /\ located = NotLocated
    /\ located' = AlignQuote(quote, source)
    /\ UNCHANGED <<source, quote>>

AlignSpec == AlignInit /\ [][Normalise]_alignVars

--------------------------------------------------------------------------------
(* Properties. *)

Verbatim(i) == /\ i + Len(quote) - 1 <= Len(source)
               /\ SubSeq(source, i, i + Len(quote) - 1) = quote

\* A claim is located only where at least half of its quote stands, in its order and on
\* no more of the record than the quote may take; and if the quote stands there word for
\* word, the claim is located where it is complete, and marked if that may be elsewhere.
AlignedIsThere ==
    located # NotLocated /\ quote # <<>> =>
        /\ located # NoSpan =>
               /\ 2 * located.matched >= Len(quote)
               /\ 1 <= located.start /\ located.start <= located.end
               /\ located.end <= Len(source)
               /\ located.end - located.start < Max({Len(quote) * SpanRatio,
                      Len(quote) + SpanSlack, Len(quote) + Max({MinSlack, Len(quote) \div 4})})
        /\ (\E i \in DOMAIN source : Verbatim(i)) =>
               /\ located.matched = Len(quote)
               /\ \/ located.ambiguous
                  \/ \E i \in DOMAIN source :
                         /\ Verbatim(i)
                         /\ i <= located.start + AmbigGap /\ located.start <= i + AmbigGap
================================================================================
