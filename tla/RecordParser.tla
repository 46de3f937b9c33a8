------------------------------ MODULE RecordParser ------------------------------
(***************************************************************************)
(* workspace/digester/record_parser.py: parse_record, which takes the      *)
(* frontmatter off a record and the fenced annotations out of its body.  A *)
(* bare --- is also legal prose, so a fence counts only if what is between *)
(* it and the next one reads as an annotation.  A text is a sequence of    *)
(* lines, and an offset counts lines.                                      *)
(***************************************************************************)
EXTENDS Naturals, SequencesExt, FiniteSetsExt

CONSTANTS
    MaxBlock,   \* the 40 lines an annotation may have
    MaxLines    \* bound: the lines of a record

ASSUME ParserAssumption == MaxBlock \in Nat /\ MaxLines \in Nat

\* "page" is an annotation that gives a file page, "speaker" one that does not, "field"
\* any other line of a YAML mapping, "prose" a line no mapping has.
Lines == {"fence", "page", "speaker", "field", "prose", "blank"}

NoFence == 0

\* _find_fence_end: the first fence at or after the given line.
FindFenceEnd(text, start) ==
    LET Fences == {i \in start .. Len(text) : text[i] = "fence"}
    IN  IF Fences = {} THEN NoFence ELSE Min(Fences)

\* The lines read as a mapping, and one of its keys is an annotation's.
Corroborated(block) == block \cap {"page", "speaker"} # {} /\ "prose" \notin block

\* MUTANT: a fence opens an annotation whatever follows.
IsAnyBlock(text, open, close) == close - open - 1 <= MaxBlock

\* _is_annotation_block, of the lines between two fences.
IsAnnotationBlock(text, open, close) ==
    /\ close - open - 1 <= MaxBlock
    /\ Corroborated({text[i] : i \in open + 1 .. close - 1})

\* The line the body begins at: behind the frontmatter, if the first line opens one.
BodyStart(text) ==
    IF text # <<>> /\ text[1] = "fence" /\ FindFenceEnd(text, 2) # NoFence
    THEN FindFenceEnd(text, 2) + 1 ELSE 1

\* The ends of the content that strip() leaves of the lines kept.
Stripped(text, kept) ==
    LET Solid == {i \in kept : text[i] # "blank"}
    IN  {i \in kept : Solid # {} /\ Min(Solid) <= i /\ i <= Max(Solid)}

--------------------------------------------------------------------------------
VARIABLES
    record,     \* the lines of a record
    line,       \* the number of the line the loop over the body is at, 0 before it
    contentParts,   \* content_parts: the numbers of the lines it has kept
    pages,      \* the pages it has found, each at the line of its annotation
    parsed      \* the body, as the numbers of its lines

parserVars == <<record, line, contentParts, pages, parsed>>

NotParsed == [done |-> FALSE, body |-> {}]

ParserInit ==
    /\ record \in BoundedSeq(Lines, MaxLines)
    /\ line = 0 /\ contentParts = {} /\ pages = {} /\ parsed = NotParsed

ParseFrontmatter ==
    /\ line = 0
    /\ line' = BodyStart(record)
    /\ UNCHANGED <<record, contentParts, pages, parsed>>

CloseOf == FindFenceEnd(record, line + 1)

AtAnnotation ==
    record[line] = "fence" /\ CloseOf # NoFence /\ IsAnnotationBlock(record, line, CloseOf)

\* The loop goes on behind the annotation; a page has the offset of what is kept so far.
TakeAnnotation ==
    /\ line \in DOMAIN record /\ AtAnnotation
    /\ pages' = IF "page" \in {record[i] : i \in line .. CloseOf}
                THEN pages \cup {[at |-> line, offset |-> Cardinality(contentParts)]} ELSE pages
    /\ line' = CloseOf + 1
    /\ UNCHANGED <<record, contentParts, parsed>>

KeepLine ==
    /\ line \in DOMAIN record /\ ~AtAnnotation
    /\ contentParts' = contentParts \cup {line} /\ line' = line + 1
    /\ UNCHANGED <<record, pages, parsed>>

\* The lines kept are joined and stripped.
Strip ==
    /\ line > Len(record) /\ ~parsed.done
    /\ parsed' = [done |-> TRUE, body |-> Stripped(record, contentParts)]
    /\ UNCHANGED <<record, line, contentParts, pages>>

ParserNext == ParseFrontmatter \/ TakeAnnotation \/ KeepLine \/ Strip

ParserSpec == ParserInit /\ [][ParserNext]_parserVars

--------------------------------------------------------------------------------
(* Properties. *)

\* The lines of the annotations of a text, each between a fence and the next one.
AnnotationLines(text) ==
    UNION {i .. FindFenceEnd(text, i + 1) : i \in
              {f \in BodyStart(text) .. Len(text) :
                  /\ text[f] = "fence" /\ FindFenceEnd(text, f + 1) # NoFence
                  /\ Corroborated({text[k] : k \in f + 1 .. FindFenceEnd(text, f + 1) - 1})}}

\* A horizontal rule costs no text: what is missing from the body is an annotation, or
\* blank at one of the ends.  No line of an annotation whose page was found is left in
\* the body, and the offset of the page is that of the text behind it.
OnlyAnnotationsAreTaken ==
    parsed.done =>
        /\ \A i \in BodyStart(record) .. Len(record) :
               record[i] = "prose" => i \in parsed.body
        /\ \A i, j \in parsed.body : \A k \in i .. j :
               k \in parsed.body \/ k \in AnnotationLines(record)
        /\ \A p \in pages :
               /\ (p.at .. FindFenceEnd(record, p.at + 1)) \cap parsed.body = {}
               /\ \A q \in pages : p.at < q.at =>
                      /\ FindFenceEnd(record, p.at + 1) < q.at
                      /\ p.offset <= q.offset
================================================================================
