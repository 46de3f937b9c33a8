------------------------------- MODULE Classifier ------------------------------
(***************************************************************************)
(* workspace/digester/entailment.py: Classifier.probs, which scores pairs  *)
(* of a premise and a claim in batches of similar length, on a card whose  *)
(* memory others use.  A batch that does not fit is halved and tried       *)
(* again; a single pair that does not fit moves the model to the CPU, for  *)
(* good.  The batch size too is what the last call left.                   *)
(***************************************************************************)
EXTENDS Naturals, SequencesExt, FiniteSetsExt

CONSTANTS
    BatchSize,      \* the batch size of a new classifier
    Costs,          \* the lengths of pairs
    MaxMemory,      \* bound: what the card may have free
    MaxPairs,       \* bound: the pairs of a call
    MaxProbs        \* bound: the calls

ASSUME ClassifierAssumption ==
    /\ BatchSize \in Nat \ {0} /\ Costs \subseteq Nat \ {0}
    /\ {MaxMemory, MaxPairs, MaxProbs} \subseteq Nat

VARIABLES
    pairs,      \* the lengths of the pairs of the call
    done,       \* how many of them, in the order of their length, have a score
    scores,     \* the scores: of which pair, at each place; NoScore
    size,       \* self.batch_size
    device,     \* self.device
    free,       \* the memory that is free on the card
    calls       \* the calls that are left

classifierVars == <<pairs, done, scores, size, device, free, calls>>

NoScore == 0

\* The numbers of the pairs, the shortest first; sorted() keeps the order of equals.
Order(ps) == SortSeq([k \in DOMAIN ps |-> k], LAMBDA i, j : ps[i] < ps[j] \/ (ps[i] = ps[j] /\ i < j))
Batch(from) == SubSeq(Order(pairs), from + 1, Min({from + size, Len(pairs)}))

\* What a batch takes: each of its pairs is padded to the longest.
Demand(batch) == Len(batch) * Max({pairs[k] : k \in ToSet(batch)})

ClassifierInit ==
    /\ pairs \in BoundedSeq(Costs, MaxPairs) /\ scores = [k \in DOMAIN pairs |-> NoScore]
    /\ done = 0 /\ size = BatchSize /\ device = "cuda" /\ free \in 0 .. MaxMemory
    /\ calls = MaxProbs

OthersUseCard ==
    /\ free' \in (0 .. MaxMemory) \ {free}
    /\ UNCHANGED <<pairs, done, scores, size, device, calls>>

Placed(batch) == [k \in DOMAIN pairs |-> IF k \in ToSet(batch) THEN k ELSE scores[k]]

\* The rows of a batch, each put where its pair was.
RunBatch ==
    /\ done < Len(pairs) /\ (device = "cuda" => Demand(Batch(done)) <= free)
    /\ scores' = Placed(Batch(done)) /\ done' = done + Len(Batch(done))
    /\ UNCHANGED <<pairs, size, device, free, calls>>

OutOfMemory == done < Len(pairs) /\ device = "cuda" /\ Demand(Batch(done)) > free

Halve ==
    /\ OutOfMemory /\ size > 1 /\ size' = size \div 2
    /\ UNCHANGED <<pairs, done, scores, device, free, calls>>

\* MUTANT: the size is expected to come down to nothing.
ToCpuAtZero ==
    /\ OutOfMemory /\ size = 0 /\ device' = "cpu"
    /\ UNCHANGED <<pairs, done, scores, size, free, calls>>

ToCpu ==
    /\ OutOfMemory /\ size = 1 /\ device' = "cpu"
    /\ UNCHANGED <<pairs, done, scores, size, free, calls>>

\* The next digest, or the other half of this one: the classifier is kept.
NextCall ==
    /\ done = Len(pairs) /\ calls > 0 /\ calls' = calls - 1 /\ done' = 0
    /\ pairs' \in BoundedSeq(Costs, MaxPairs) /\ scores' = [k \in DOMAIN pairs' |-> NoScore]
    /\ UNCHANGED <<size, device, free>>

Attempt == RunBatch \/ Halve \/ ToCpu
ClassifierNext == Attempt \/ NextCall \/ OthersUseCard
ClassifierFairness == WF_classifierVars(Attempt)
ClassifierSpec == ClassifierInit /\ [][ClassifierNext]_classifierVars /\ ClassifierFairness

--------------------------------------------------------------------------------
(* Properties. *)

\* A score stands where its pair stood, the first done of the order have one, and when
\* the call returns each has: a batch that failed leaves nothing out and nothing behind.
EveryScoreAtItsPair ==
    /\ done <= Len(pairs) /\ size \in 1 .. BatchSize
    /\ \A k \in DOMAIN pairs :
           scores[k] = IF k \in ToSet(SubSeq(Order(pairs), 1, done)) THEN k ELSE NoScore

\* However the memory comes and goes, a call returns, with the score of each pair at the
\* place of the pair.
ClassificationEnds ==
    /\ []EveryScoreAtItsPair
    /\ [](done < Len(pairs) => <>(done = Len(pairs)))
================================================================================
