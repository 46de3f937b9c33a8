--------------------------------- MODULE Chunks --------------------------------
(***************************************************************************)
(* workspace/digester/extract.py: _build_chunks, which cuts the body of a  *)
(* record for the two passes: at its chapter markers, and inside a chapter *)
(* (or a body without any) into windows that end at a natural boundary.    *)
(* A text is a sequence of characters; a marker counts as one.             *)
(***************************************************************************)
EXTENDS Naturals, SequencesExt, FiniteSetsExt

CONSTANTS
    HardMax,    \* CHUNK_HARD_MAX
    MaxChars,   \* CHUNK_MAX_CHARS, of either pass
    MinChars,   \* CHUNK_MIN_CHARS
    ChapterMin, \* the 50_000 of _build_chunks
    MaxLen      \* bound: the length of a text

ASSUME SizesAssumption ==
    /\ HardMax \in Nat \ {0} /\ MaxChars \in Nat /\ MinChars \in Nat \ {0}
    /\ ChapterMin \in Nat /\ MaxLen \in Nat

Chars == {"x", "newline", "page", "heading", "chapter"}

\* The natural boundaries, best first.
Patterns == <<<<"newline", "page">>, <<"newline", "heading">>, <<"newline", "newline">>,
              <<"newline">>>>

NoSplit == 0

--------------------------------------------------------------------------------
VARIABLES
    body,       \* the body of a record, which parse_record has stripped
    chunks,     \* its chunks so far: each the part of the body between two offsets
    pos,        \* the offset that the loop of _chunk_text has come to
    stop        \* the offset at which the chapter ends that is being cut

chunkVars == <<body, chunks, pos, stop>>

\* The newlines in front of the chapter markers, at which re.split cuts and which it drops.
Breaks == {i \in 1 .. Len(body) - 1 : body[i] = "newline" /\ body[i + 1] = "chapter"}

\* _split_at_chapters: where the part ends that begins at an offset.
ChapterEnd(from) ==
    LET Later == {i \in Breaks : i > from}
    IN  IF Later = {} THEN Len(body) ELSE Min(Later) - 1

\* hard_max, and the min_chars of a window, which depends on there being chapters.
HardLimit == Min({HardMax, Max({MaxChars, MinChars})})
Least == IF Breaks = {} THEN MinChars ELSE Min({ChapterMin, HardLimit})

\* The places of a pattern in the window, the very beginning not counted.
Hits(k, lo, hi) ==
    {i \in lo + 1 .. hi - Len(Patterns[k]) :
        \A j \in DOMAIN Patterns[k] : body[i + j] = Patterns[k][j]}

\* _find_split_point: behind the newline of the last place of the best pattern.
FindSplitPoint(lo, hi) ==
    LET Found == {k \in DOMAIN Patterns : Hits(k, lo, hi) # {}}
    IN  IF Found = {} THEN NoSplit ELSE Max(Hits(Min(Found), lo, hi)) + 1

\* Where the loop of _chunk_text ends its next chunk.
NextEnd ==
    LET split == FindSplitPoint(pos + Least, pos + HardLimit)
    IN  IF pos + HardLimit >= stop THEN stop
        ELSE IF split = NoSplit THEN pos + HardLimit ELSE split

Bodies == {t \in BoundedSeq(Chars, MaxLen) :
              t # <<>> => t[1] # "newline" /\ t[Len(t)] # "newline"}

ChunkInit == body \in Bodies /\ chunks = <<>> /\ pos = 0 /\ stop = ChapterEnd(0)

\* MUTANT: what is left of a chapter and fits in a chunk is left out.
CutPieceOfFull ==
    /\ pos < stop \/ chunks = <<>>
    /\ chunks' = IF pos + HardLimit >= stop /\ chunks # <<>> THEN chunks
                 ELSE Append(chunks, [from |-> pos, to |-> NextEnd])
    /\ pos' = NextEnd /\ UNCHANGED <<body, stop>>

\* A round of the loop; what fits in a chunk is not cut at all, nor is an empty body.
CutPiece ==
    /\ pos < stop \/ chunks = <<>>
    /\ chunks' = Append(chunks, [from |-> pos, to |-> NextEnd]) /\ pos' = NextEnd
    /\ UNCHANGED <<body, stop>>

\* The next chapter of the loop of _build_chunks, behind its newline.
OpenChapter ==
    /\ chunks # <<>> /\ pos = stop /\ stop < Len(body)
    /\ pos' = stop + 1 /\ stop' = ChapterEnd(stop + 1)
    /\ UNCHANGED <<body, chunks>>

ChunkNext == CutPiece \/ OpenChapter

ChunkSpec == ChunkInit /\ [][ChunkNext]_chunkVars

--------------------------------------------------------------------------------
(* Properties. *)

IsCut == chunks # <<>> /\ pos = Len(body)

\* The next chunk goes on where one ends, or behind the newline of a chapter marker.
GoesOn(c, d) == d.from = c.to
NewChapter(c, d) == d.from = c.to + 1 /\ d.from \in Breaks

\* The chunks put together are the body, short of the newline in front of each chapter
\* marker, and each has a share in it: the loop never stands still.
Lossless ==
    /\ \A k \in DOMAIN chunks :
           /\ k = 1 => chunks[k].from = 0
           /\ k > 1 => GoesOn(chunks[k - 1], chunks[k]) \/ NewChapter(chunks[k - 1], chunks[k])
           /\ body # <<>> => chunks[k].from < chunks[k].to
    /\ IsCut => chunks[Len(chunks)].to = Len(body)

\* "Hard upper bound on chunk size", with and without chapters.
Fits == \A k \in DOMAIN chunks : chunks[k].to - chunks[k].from <= HardMax

\* It ends with a line, unless no line ends in the part of its window where it may, and
\* then it fills the window.
EndsWell(c) ==
    \/ body[c.to] = "newline"
    \/ /\ c.to - c.from = HardLimit
       /\ \A i \in c.from + Least + 2 .. c.to : body[i] # "newline"

\* A chapter that follows a line break begins a chunk; and a chunk that does not end its
\* chapter ends well.
CutsBetweenLines ==
    \A k \in DOMAIN chunks :
        /\ \A i \in Breaks : ~ (chunks[k].from < i /\ i <= chunks[k].to)
        /\ k > 1 /\ GoesOn(chunks[k - 1], chunks[k]) => EndsWell(chunks[k - 1])

\* Nothing of a record is lost or read twice by a pass, no chunk is above the ceiling, and
\* none ends within a line that it need not cut.
CutWell == Lossless /\ Fits /\ CutsBetweenLines
================================================================================
