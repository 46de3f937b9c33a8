-------------------------------- MODULE TwoPass --------------------------------
(***************************************************************************)
(* workspace/digester/extract.py: extract_two_pass with its two passes,    *)
(* extract_nodes_v2 and extract_claims_v2, and the cooperative cancel.     *)
(*                                                                         *)
(* Each pass walks the chunks of the record and, within a chunk, asks the  *)
(* model round after round, until the model says it is complete, a round   *)
(* brings fewer than MinNew new items, or IterationMax rounds are done.    *)
(* Nodes are merged by name and claims by _claim_key_v2, across all        *)
(* chunks.  The transport keeps every answer in a cache keyed by the       *)
(* prompt, so a run that was cancelled (SIGTERM sets a flag), killed or    *)
(* failed is resumed by running it again.                                  *)
(***************************************************************************)
EXTENDS Naturals, Sequences

CONSTANTS
    Chunks,         \* how many chunks _build_chunks makes of the record
    IterationMax,   \* the runaway ceiling on rounds
    MinNew,         \* ITERATION_MIN_NEW
    Capacity,       \* how many node names the model's route can carry
    Names,          \* node names
    Claims,         \* the claims a model may return
    NodeAnswers,    \* the answers the model may give in the nodes pass
    ClaimAnswers,   \* the answers the model may give in the claims pass
    MaxRuns         \* bound: how often the extraction is run

ASSUME CountsAssumption ==
    /\ Chunks \in Nat \ {0} /\ IterationMax \in Nat \ {0}
    /\ MinNew \in Nat \ {0} /\ Capacity \in Nat /\ MaxRuns \in Nat

\* A claim carries its proposition (content, type, attestation and speaker) and the
\* root of its provenance chain.
ASSUME ClaimsAssumption ==
    \A c \in Claims : DOMAIN c = {"proposition", "origin", "root"}
                        /\ c.origin \in {"none", "named", "anonymous"}

ASSUME AnswersAssumption ==
    /\ NodeAnswers \subseteq [items : Seq(Names), complete : BOOLEAN]
    /\ ClaimAnswers \subseteq [items : Seq(Claims), complete : BOOLEAN]

VARIABLES
    pc,         \* where the run stands
    pass,       \* "nodes" or "claims"
    chunk,      \* the chunk being read
    round,      \* the round of the chunk, from 1
    nodes,      \* merged_nodes: the node directory, in order of arrival
    claims,     \* merged_claims
    inChunk,    \* chunk_claims: the claims of this chunk, which the prompt excludes
    seen,       \* seen_content: the keys of the claims
    answer,     \* the rest of the answer being merged
    fresh,      \* new_in_round
    cancel,     \* _cancel_requested
    cache,      \* the answered prompts with their answers, in order (the transport's)
    asked,      \* the prompts of this run whose answers it has
    runs        \* how often the extraction was started

state == <<pass, chunk, round, nodes, claims, inChunk, seen, answer, fresh>>
twoVars == <<pc, state, cancel, cache, asked, runs>>

--------------------------------------------------------------------------------
Elements(s) == {s[i] : i \in DOMAIN s}

\* _claim_key_v2: the root of the chain counts only if it is anonymous.
Key(c) == <<c.proposition, IF c.origin = "anonymous" THEN c.root ELSE "">>

\* The exclude list: the propositions of the chunk's claims, without their chains.
Exclude == [i \in DOMAIN inChunk |-> inChunk[i].proposition]

\* What a call sends: the chunk and, in the nodes pass, the directory so far; in the
\* claims pass, the locked directory and what to exclude.
Prompt == <<pass, chunk, nodes, Exclude>>

NoAnswer == [items |-> <<>>, complete |-> FALSE]

Cached == {i \in DOMAIN cache : cache[i].prompt = Prompt}

\* MUTANT: the node directory of the run before is still there.
StartWithNodes ==
    /\ pass' = "nodes" /\ chunk' = 1 /\ round' = 1
    /\ claims' = <<>> /\ inChunk' = <<>> /\ seen' = {}
    /\ answer' = NoAnswer /\ fresh' = 0
    /\ asked' = <<>>
    /\ UNCHANGED nodes

Start ==
    /\ pass' = "nodes" /\ chunk' = 1 /\ round' = 1
    /\ nodes' = <<>> /\ claims' = <<>> /\ inChunk' = <<>> /\ seen' = {}
    /\ answer' = NoAnswer /\ fresh' = 0
    /\ asked' = <<>>

TwoInit ==
    /\ pc = "idle" /\ cancel \in BOOLEAN /\ cache = <<>> /\ runs = 0
    /\ pass = "nodes" /\ chunk = 1 /\ round = 1
    /\ nodes = <<>> /\ claims = <<>> /\ inChunk = <<>> /\ seen = {}
    /\ answer = NoAnswer /\ fresh = 0 /\ asked = <<>>

--------------------------------------------------------------------------------
\* extract_two_pass is entered: reset_cancel, and everything in memory is new.  A run
\* that was cancelled, or ended in an error, is started again by the queue.
Run ==
    /\ pc \in {"idle", "cancelled", "failed"}
    /\ runs < MaxRuns
    /\ pc' = "ask"
    /\ cancel' = FALSE
    /\ runs' = runs + 1
    /\ Start
    /\ UNCHANGED cache

\* SIGTERM: the handler only sets the flag.
Sigterm ==
    /\ pc \in {"ask", "calling", "merge"}
    /\ cancel' = TRUE
    /\ UNCHANGED <<pc, state, cache, asked, runs>>

\* _check_cancel, before a call.
Cancel ==
    /\ pc = "ask"
    /\ cancel
    /\ pc' = "cancelled"
    /\ UNCHANGED <<state, cancel, cache, asked, runs>>

\* MUTANT: the route's capacity is looked at in the claims pass only, and a call of the
\* nodes pass that it cannot carry does not come back.
RefuseInClaims ==
    /\ pc = "ask" /\ pass = "claims"
    /\ ~cancel
    /\ Len(nodes) > Capacity
    /\ pc' = "refused"
    /\ UNCHANGED <<state, cancel, cache, asked, runs>>

\* The directory has outgrown the route: check_route_capacity in the nodes pass, the
\* transport's guard on the schema's enum in the claims pass.
Refuse ==
    /\ pc = "ask"
    /\ ~cancel
    /\ Len(nodes) > Capacity
    /\ pc' = "refused"
    /\ UNCHANGED <<state, cancel, cache, asked, runs>>

\* MUTANT: the cancel is looked at only when a chunk begins.
DispatchRounds ==
    /\ pc = "ask"
    /\ ~(cancel /\ round = 1)
    /\ Len(nodes) <= Capacity
    /\ pc' = "calling"
    /\ UNCHANGED <<state, cancel, cache, asked, runs>>

\* call_with_document is called.
Dispatch ==
    /\ pc = "ask"
    /\ ~cancel
    /\ Len(nodes) <= Capacity
    /\ pc' = "calling"
    /\ UNCHANGED <<state, cancel, cache, asked, runs>>

\* The call returns: with the cached answer if the prompt was answered before, else
\* with the model's, which the transport caches first.
Answer ==
    /\ pc = "calling"
    /\ \E a \in IF Cached # {} THEN {cache[i].answer : i \in Cached}
                ELSE IF pass = "nodes" THEN NodeAnswers ELSE ClaimAnswers :
           /\ answer' = a
           /\ cache' = IF Cached # {} THEN cache
                       ELSE Append(cache, [prompt |-> Prompt, answer |-> a])
    /\ asked' = Append(asked, Prompt)
    /\ fresh' = 0
    /\ pc' = "merge"
    /\ UNCHANGED <<pass, chunk, round, nodes, claims, inChunk, seen, cancel, runs>>

\* One turn of the merging loop of the nodes pass: the first node of a name stays.
MergeNode ==
    /\ pc = "merge" /\ pass = "nodes" /\ answer.items # <<>>
    /\ LET n == Head(answer.items) IN
           IF n \in Elements(nodes) THEN UNCHANGED <<nodes, fresh>>
           ELSE nodes' = Append(nodes, n) /\ fresh' = fresh + 1
    /\ answer' = [answer EXCEPT !.items = Tail(@)]
    /\ UNCHANGED <<pc, pass, chunk, round, claims, inChunk, seen, cancel, cache, asked, runs>>

\* MUTANT: the keys of a chunk are not carried to the next one.
MergeClaimOfChunk ==
    /\ pc = "merge" /\ pass = "claims" /\ answer.items # <<>>
    /\ LET c == Head(answer.items) IN
           IF Key(c) \in {Key(d) : d \in Elements(inChunk)}
           THEN UNCHANGED <<claims, inChunk, seen, fresh>>
           ELSE /\ claims' = Append(claims, c) /\ inChunk' = Append(inChunk, c)
                /\ seen' = seen \cup {Key(c)} /\ fresh' = fresh + 1
    /\ answer' = [answer EXCEPT !.items = Tail(@)]
    /\ UNCHANGED <<pc, pass, chunk, round, nodes, cancel, cache, asked, runs>>

\* One turn of the merging loop of the claims pass.
MergeClaim ==
    /\ pc = "merge" /\ pass = "claims" /\ answer.items # <<>>
    /\ LET c == Head(answer.items) IN
           IF Key(c) \in seen THEN UNCHANGED <<claims, inChunk, seen, fresh>>
           ELSE /\ claims' = Append(claims, c) /\ inChunk' = Append(inChunk, c)
                /\ seen' = seen \cup {Key(c)} /\ fresh' = fresh + 1
    /\ answer' = [answer EXCEPT !.items = Tail(@)]
    /\ UNCHANGED <<pc, pass, chunk, round, nodes, cancel, cache, asked, runs>>

\* MUTANT: a complete answer ends the chunk before it is merged.
MergedIfComplete == pc = "merge" /\ (answer.items = <<>> \/ answer.complete)

Merged == pc = "merge" /\ answer.items = <<>>

ChunkDone == answer.complete \/ fresh < MinNew \/ round = IterationMax

NextRound ==
    /\ Merged /\ ~ChunkDone
    /\ round' = round + 1
    /\ pc' = "ask"
    /\ UNCHANGED <<pass, chunk, nodes, claims, inChunk, seen, answer, fresh,
                   cancel, cache, asked, runs>>

NextChunk ==
    /\ Merged /\ ChunkDone /\ chunk < Chunks
    /\ chunk' = chunk + 1 /\ round' = 1 /\ inChunk' = <<>>
    /\ pc' = "ask"
    /\ UNCHANGED <<pass, nodes, claims, seen, answer, fresh, cancel, cache, asked, runs>>

\* The claims pass starts over the same chunks, with the directory locked.
NextPass ==
    /\ Merged /\ ChunkDone /\ chunk = Chunks /\ pass = "nodes"
    /\ pass' = "claims" /\ chunk' = 1 /\ round' = 1
    /\ pc' = "ask"
    /\ UNCHANGED <<nodes, claims, inChunk, seen, answer, fresh, cancel, cache, asked, runs>>

Finish ==
    /\ Merged /\ ChunkDone /\ chunk = Chunks /\ pass = "claims"
    /\ pc' = "done"
    /\ UNCHANGED <<state, cancel, cache, asked, runs>>

\* The process is killed, or a call raises: a call in flight leaves no answer.
Fail ==
    /\ pc \in {"ask", "calling", "merge"}
    /\ pc' = "failed"
    /\ UNCHANGED <<state, cancel, cache, asked, runs>>

--------------------------------------------------------------------------------
Working ==
    \/ Cancel \/ Refuse \/ Dispatch \/ Answer \/ MergeNode \/ MergeClaim
    \/ NextRound \/ NextChunk \/ NextPass \/ Finish

TwoNext == Run \/ Sigterm \/ Fail \/ Working

TwoSpec == TwoInit /\ [][TwoNext]_twoVars

\* A run that was started keeps working; nothing promises that it is started, and the
\* model answers every call in time or the call raises.
FairTwoSpec == TwoSpec /\ WF_twoVars(Working)

--------------------------------------------------------------------------------
(* Properties. *)

Entries(p, answers) ==
    [prompt : {p} \X (1 .. Chunks) \X Seq(Names) \X Seq({c.proposition : c \in Claims}),
     answer : answers]

TwoTypeOK ==
    /\ pc \in {"idle", "ask", "calling", "merge", "cancelled", "failed", "refused", "done"}
    /\ pass \in {"nodes", "claims"}
    /\ chunk \in 1 .. Chunks
    /\ round \in 1 .. IterationMax
    /\ nodes \in Seq(Names)
    /\ claims \in Seq(Claims)
    /\ inChunk \in Seq(Claims)
    /\ answer \in [items : Seq(IF pass = "nodes" THEN Names ELSE Claims), complete : BOOLEAN]
    /\ pc # "merge" => answer.items = <<>> \/ pc = "failed"
    /\ fresh \in Nat
    /\ cancel \in BOOLEAN
    /\ runs \in 0 .. MaxRuns
    /\ cache \in Seq(Entries("nodes", NodeAnswers) \cup Entries("claims", ClaimAnswers))

\* The node directory has every name once, and the claims have every key once, across
\* all chunks and rounds; seen_content is exactly the keys of the claims.
MergeInv ==
    /\ \A i, j \in DOMAIN nodes : nodes[i] = nodes[j] => i = j
    /\ \A i, j \in DOMAIN claims : Key(claims[i]) = Key(claims[j]) => i = j
    /\ seen = {Key(c) : c \in Elements(claims)}
    /\ Elements(inChunk) \subseteq Elements(claims)

\* A resumed run asks what the runs before it asked, in the same order, and gets the
\* kept answers: only the calls nobody has answered yet reach the model ("the resume
\* replays them", cli.py and extract.py).
ResumeReplays ==
    /\ Len(asked) <= Len(cache)
    /\ \A i \in DOMAIN asked : asked[i] = cache[i].prompt
    /\ pc = "calling" /\ Len(asked) < Len(cache) =>
           Cached = {Len(asked) + 1}

\* After a SIGTERM the run finishes the call in flight and dispatches no other.
StopsAtBoundary == [][cancel /\ cancel' => ~(pc = "ask" /\ pc' = "calling")]_twoVars

\* No answer a model can give keeps a run going for ever.
RunEnds == pc \in {"ask", "calling", "merge"}
               ~> pc \in {"done", "cancelled", "refused", "failed"}

\* However it was interrupted, an extraction is one conversation with the model, and
\* its result has exactly the names and the claim keys of all its answers.
ItemsOf(talk, p) ==
    UNION {Elements(talk[i].answer.items) : i \in {j \in DOMAIN talk : talk[j].prompt[1] = p}}
SummaryOf(talk) == [names |-> ItemsOf(talk, "nodes"),
                    keys |-> {Key(c) : c \in ItemsOf(talk, "claims")}]
Talk == INSTANCE Conversation WITH
            talk <- cache,
            result <- IF pc = "done" THEN [names |-> Elements(nodes), keys |-> seen]
                      ELSE NoAnswer,
            Summary <- SummaryOf,
            NoResult <- NoAnswer
ImplementsConversation == Talk!TalkSpec

\* extract_claims_v2 tells the model: "Never suppress an attributed assertion because an
\* unattributed version was captured earlier - the attribution is the point."  So a
\* claim whose source the model named is kept with that source.
AttributionIsKept ==
    pc = "done" =>
        \A i \in DOMAIN cache : cache[i].prompt[1] = "claims" =>
            \A c \in Elements(cache[i].answer.items) : c.origin = "named" =>
                \E d \in Elements(claims) :
                    d.proposition = c.proposition /\ d.origin = "named" /\ d.root = c.root
================================================================================
