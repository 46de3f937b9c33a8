------------------------------ MODULE RefreshText ------------------------------
(***************************************************************************)
(* workspace/digester/refresh.py: how apply edits the record block of a    *)
(* digest.  _splice edits the lines of the text and leaves the rest alone; *)
(* if the result does not parse, the document is written anew instead.  A  *)
(* line is a key of the block, or of a mapping nested in it; a value that  *)
(* is "" opens such a mapping, and values never span lines.                *)
(***************************************************************************)
EXTENDS Naturals, SequencesExt, Functions, FiniteSets

CONSTANTS
    Keys,           \* the keys of a record block
    Mappings,       \* those of them whose value may be a mapping
    Changeable,     \* those of them the refresh may change
    NestedKeys,     \* the keys of a mapping nested in it
    MaxBlockLines   \* bound: the lines of a block

ASSUME RefreshTextAssumption ==
    /\ Mappings \cup Changeable \subseteq Keys /\ IsFiniteSet(Changeable) /\ MaxBlockLines \in Nat

Line1(key, value) == [depth |-> 1, key |-> key, value |-> value]
Line2(key) == [depth |-> 2, key |-> key, value |-> "old"]
BlockLines == {Line1(k, "old") : k \in Keys} \cup {Line1(k, "") : k \in Mappings}
                  \cup {Line2(k) : k \in NestedKeys}

\* The lines of the mapping that line i opens.
NestedAt(block, i) ==
    {j \in i + 1 .. Len(block) : \A k \in i + 1 .. j : block[k].depth = 2}
TopLines(block) == {i \in DOMAIN block : block[i].depth = 1}

\* A text that no parser takes: a mapping below a value.
Parses(block) ==
    /\ block # <<>> => block[1].depth = 1
    /\ \A i \in TopLines(block) : block[i].value # "" => NestedAt(block, i) = {}

\* What a parser makes of it: the value of each key, or the keys of the mapping it has; of
\* a key that is there twice, the last one.
Meaning(block) ==
    [k \in {block[i].key : i \in TopLines(block)} |->
        LET i == CHOOSE n \in TopLines(block) :
                     block[n].key = k /\ \A m \in TopLines(block) : block[m].key = k => m <= n
        IN  [value |-> block[i].value, keys |-> {block[j].key : j \in NestedAt(block, i)}]]

New == [value |-> "new", keys |-> {}]

\* What the plan says: these keys get their new values.
Planned(b, keys) ==
    [k \in keys \cup DOMAIN Meaning(b) |-> IF k \in keys THEN New ELSE Meaning(b)[k]]

--------------------------------------------------------------------------------
VARIABLES
    block,      \* the record block of a digest
    changes,    \* the keys the plan changes
    result,     \* what the digest then says of the record
    entries     \* the curation entries it has

refreshTextVars == <<block, changes, result, entries>>

NotApplied == [block |-> <<>>, done |-> FALSE]

\* The digest writer indents what is nested, and writes a key once.
WellFormed(b) ==
    /\ Parses(b) /\ \A i, j \in TopLines(b) : b[i].key = b[j].key => i = j
    /\ \A i \in TopLines(b) : b[i].value = "" => NestedAt(b, i) # {}
    /\ \A i \in TopLines(b) : \A j, k \in NestedAt(b, i) : b[j].key = b[k].key => j = k

RefreshTextInit ==
    /\ block \in {b \in BoundedSeq(BlockLines, MaxBlockLines) : WellFormed(b)}
    /\ changes \in SUBSET Changeable \ {{}}
    /\ entries \in {0, 1} /\ result = NotApplied

\* MUTANT: what the block does not have is not added.
SplicedInPlace(b, keys) ==
    [i \in DOMAIN b |-> IF b[i].key \in keys THEN Line1(b[i].key, "new") ELSE b[i]]

\* The loop of _splice: a line whose key is changed is replaced, at any depth, and what was
\* not seen is added at the end.
SplicedLines(b, keys) ==
    LET missing == keys \ {b[i].key : i \in DOMAIN b}
    IN  [i \in DOMAIN b |-> IF b[i].key \in keys THEN Line1(b[i].key, "new") ELSE b[i]]
            \o SetToSeq({Line1(k, "new") : k \in missing})

\* The spliced text gets a curation only if it has none; the document written anew has one
\* in any case.
Apply ==
    /\ ~result.done
    /\ LET spliced == SplicedLines(block, changes)
       IN  /\ result' = [done |-> TRUE, block |-> IF Parses(spliced) THEN Meaning(spliced)
                                                  ELSE Planned(block, changes)]
           /\ entries' = IF Parses(spliced) /\ entries > 0 THEN entries ELSE entries + 1
    /\ UNCHANGED <<block, changes>>

RefreshTextSpec == RefreshTextInit /\ [][Apply]_refreshTextVars

--------------------------------------------------------------------------------
(* Properties. *)

\* A key that is changed has its new value, whether a line was replaced or added or the
\* document written anew; a key that is not changed is still there, and as it was unless
\* it is a mapping with a key of a changed name; and the digest says it was edited.
RefreshKeepsTheRest ==
    result.done =>
        /\ \A k \in changes : k \in DOMAIN result.block /\ result.block[k].value = "new"
        /\ \A k \in DOMAIN Meaning(block) \ changes :
               /\ k \in DOMAIN result.block
               /\ Meaning(block)[k].keys \cap changes = {} =>
                      result.block[k] = Meaning(block)[k]
        /\ entries > 0

\* "Edit ONLY the record block and append curation, leaving every other byte": what the
\* digest then says of its record is what the plan said.
OnlyThePlannedChanges == result.done => result.block = Planned(block, changes)
================================================================================
