------------------------------ MODULE TwoPassProofs ----------------------------
(***************************************************************************)
(* For any record, any model and any interruptions: the merged node        *)
(* directory has every name once, the merged claims have every key once,   *)
(* and seen_content is exactly the keys of the claims; a resumed run asks  *)
(* what was asked before it and is given the kept answers; and all runs    *)
(* together are one conversation whose result has all that was answered.   *)
(*                                                                         *)
(* That the merge is unique is inductive with the types.  For the rest the *)
(* invariant has the course of a run: the places it goes through with the  *)
(* kept answers, up to the first question the cache cannot answer.         *)
(***************************************************************************)
EXTENDS TwoPass, Integers, TLAPS

\* An item appended to a sequence joins its elements.
LEMMA AppendElements ==
    ASSUME NEW S, NEW s \in Seq(S), NEW x \in S
    PROVE  /\ Append(s, x) \in Seq(S)
           /\ Elements(Append(s, x)) = Elements(s) \cup {x}
           /\ DOMAIN Append(s, x) = DOMAIN s \cup {Len(s) + 1}
           /\ Append(s, x)[Len(s) + 1] = x
           /\ \A i \in DOMAIN s : Append(s, x)[i] = s[i] /\ i # Len(s) + 1
<1>1. /\ DOMAIN Append(s, x) = DOMAIN s \cup {Len(s) + 1}
      /\ Append(s, x)[Len(s) + 1] = x
      /\ \A i \in DOMAIN s : Append(s, x)[i] = s[i] /\ i # Len(s) + 1
  OBVIOUS
<1>2. Elements(Append(s, x)) = Elements(s) \cup {x}
  BY <1>1 DEF Elements
<1> QED BY <1>1, <1>2

\* The head and the tail of a non-empty sequence have its type.
LEMMA HeadTail ==
    ASSUME NEW S, NEW s \in Seq(S), s # <<>>
    PROVE  Head(s) \in S /\ Tail(s) \in Seq(S)
  OBVIOUS

\* The elements of a sequence are its head and those of its tail.
LEMMA HeadTailElements ==
    ASSUME NEW S, NEW s \in Seq(S), s # <<>>
    PROVE  Elements(s) = {Head(s)} \cup Elements(Tail(s))
<1>1. /\ Len(s) \in Nat \ {0} /\ DOMAIN s = 1 .. Len(s) /\ DOMAIN Tail(s) = 1 .. Len(s) - 1
      /\ Head(s) = s[1] /\ \A i \in DOMAIN Tail(s) : Tail(s)[i] = s[i + 1] /\ i + 1 \in DOMAIN s
  OBVIOUS
<1>2. ASSUME NEW i \in DOMAIN s PROVE s[i] = Head(s) \/ s[i] \in Elements(Tail(s))
  <2>1. i = 1 \/ (i - 1 \in DOMAIN Tail(s) /\ s[i] = Tail(s)[i - 1])
    BY <1>1
  <2> QED BY <1>1, <2>1 DEF Elements
<1>3. Head(s) \in Elements(s) /\ \A i \in DOMAIN Tail(s) : Tail(s)[i] \in Elements(s)
  BY <1>1 DEF Elements
<1> QED BY <1>2, <1>3 DEF Elements

\* The types hold at the start.
LEMMA InitTwo == TwoInit => TwoTypeOK /\ MergeInv
  BY CountsAssumption
     DEF TwoInit, TwoTypeOK, MergeInv, NoAnswer, Elements

\* The answer a call gets has the items of its pass.
LEMMA AnswerType ==
    ASSUME TwoTypeOK, Answer
    PROVE  /\ answer' \in [items : Seq(IF pass = "nodes" THEN Names ELSE Claims),
                            complete : BOOLEAN]
           /\ cache' \in Seq(Entries("nodes", NodeAnswers) \cup Entries("claims", ClaimAnswers))
<1> DEFINE Given == IF pass = "nodes" THEN NodeAnswers ELSE ClaimAnswers
           Kept  == Entries("nodes", NodeAnswers) \cup Entries("claims", ClaimAnswers)
<1>1. cache \in Seq(Kept)
  BY DEF TwoTypeOK
<1>2. /\ Prompt \in {pass} \X (1 .. Chunks) \X Seq(Names) \X Seq({c.proposition : c \in Claims})
      /\ Prompt[1] = pass
  <2>1. Exclude \in Seq({c.proposition : c \in Claims})
    BY DEF TwoTypeOK, Exclude
  <2> QED
    BY <2>1 DEF TwoTypeOK, Prompt
<1>3. answer' \in Given
  <2>1. ASSUME NEW i \in Cached PROVE cache[i].answer \in Given
    <3>1. cache[i] \in Kept /\ cache[i].prompt = Prompt
      BY <1>1 DEF Cached
    <3>2. cache[i].prompt[1] = pass
      BY <1>2, <3>1
    <3>3. CASE cache[i] \in Entries("nodes", NodeAnswers)
      BY <3>2, <3>3 DEF Entries
    <3>4. CASE cache[i] \in Entries("claims", ClaimAnswers)
      BY <3>2, <3>4 DEF Entries
    <3> QED BY <3>1, <3>3, <3>4
  <2> QED BY <2>1 DEF Answer
<1>4. answer' \in [items : Seq(IF pass = "nodes" THEN Names ELSE Claims), complete : BOOLEAN]
  BY <1>3, AnswersAssumption
<1>5. [prompt |-> Prompt, answer |-> answer'] \in Kept
  BY <1>2, <1>3 DEF Entries, TwoTypeOK
<1>6. cache' = cache \/ cache' = Append(cache, [prompt |-> Prompt, answer |-> answer'])
  BY DEF Answer
<1>7. cache' \in Seq(Kept)
  BY <1>1, <1>5, <1>6
<1> QED BY <1>4, <1>7

\* Every step keeps every variable in its type.
LEMMA TypeStep == TwoTypeOK /\ [TwoNext]_twoVars => TwoTypeOK'
<1> SUFFICES ASSUME TwoTypeOK, [TwoNext]_twoVars PROVE TwoTypeOK'
  OBVIOUS
<1> USE CountsAssumption DEF TwoTypeOK, state
<1>1. CASE Run
  <2>1. /\ nodes' = <<>> /\ claims' = <<>> /\ inChunk' = <<>>
        /\ answer' \in [items : Seq(Names), complete : BOOLEAN] /\ answer'.items = <<>>
    BY <1>1 DEF Run, Start, NoAnswer
  <2>2. /\ pc' = "ask" /\ pass' = "nodes" /\ chunk' = 1 /\ round' = 1 /\ fresh' = 0
        /\ cancel' = FALSE /\ runs' \in 0 .. MaxRuns /\ cache' = cache
    BY <1>1 DEF Run, Start
  <2>3. 1 \in 1 .. Chunks /\ 1 \in 1 .. IterationMax
    OBVIOUS
  <2>4. nodes' \in Seq(Names) /\ claims' \in Seq(Claims) /\ inChunk' \in Seq(Claims)
    BY <2>1
  <2>5. answer' \in [items : Seq(IF pass' = "nodes" THEN Names ELSE Claims), complete : BOOLEAN]
    BY <2>1, <2>2
  <2>6. /\ pc' # "merge" => answer'.items = <<>> \/ pc' = "failed"
        /\ fresh' \in Nat /\ cancel' \in BOOLEAN
    BY <2>1, <2>2
  <2>7. cache' \in Seq(Entries("nodes", NodeAnswers) \cup Entries("claims", ClaimAnswers))
    BY <2>2
  <2>8. chunk' \in 1 .. Chunks /\ round' \in 1 .. IterationMax
    BY <2>2, <2>3
  <2> QED BY <2>2, <2>4, <2>5, <2>6, <2>7, <2>8
<1>2. CASE Sigterm
  BY <1>2 DEF Sigterm
<1>3. CASE Fail
  BY <1>3 DEF Fail
<1>4. CASE Cancel
  BY <1>4 DEF Cancel
<1>5. CASE Refuse
  BY <1>5 DEF Refuse
<1>6. CASE Dispatch
  BY <1>6 DEF Dispatch
<1>7. CASE Answer
  BY <1>7, AnswerType DEF Answer
<1>8. CASE MergeNode
  <2>1. Head(answer.items) \in Names /\ Tail(answer.items) \in Seq(Names)
    BY <1>8, HeadTail DEF MergeNode
  <2>2. answer' \in [items : Seq(Names), complete : BOOLEAN] /\ pass' = "nodes" /\ pass = "nodes"
    BY <1>8, <2>1 DEF MergeNode
  <2>3. nodes' \in Seq(Names) /\ fresh' \in Nat
    <3>1. CASE Head(answer.items) \in Elements(nodes)
      BY <1>8, <3>1 DEF MergeNode
    <3>2. CASE Head(answer.items) \notin Elements(nodes)
      <4>1. nodes' = Append(nodes, Head(answer.items)) /\ fresh' = fresh + 1
        BY <1>8, <3>2 DEF MergeNode
      <4> QED BY <2>1, <4>1
    <3> QED BY <3>1, <3>2
  <2>4. pc' = "merge" /\ UNCHANGED <<pc, chunk, round, claims, inChunk, cancel, cache, runs>>
    BY <1>8 DEF MergeNode
  <2> QED BY <2>2, <2>3, <2>4
<1>9. CASE MergeClaim
  <2>1. Head(answer.items) \in Claims /\ Tail(answer.items) \in Seq(Claims)
    BY <1>9, HeadTail DEF MergeClaim
  <2>2. answer' \in [items : Seq(Claims), complete : BOOLEAN] /\ pass' = "claims" /\ pass = "claims"
    BY <1>9, <2>1 DEF MergeClaim
  <2>3. claims' \in Seq(Claims) /\ inChunk' \in Seq(Claims) /\ fresh' \in Nat
    <3>1. CASE Key(Head(answer.items)) \in seen
      BY <1>9, <3>1 DEF MergeClaim
    <3>2. CASE Key(Head(answer.items)) \notin seen
      <4>1. /\ claims' = Append(claims, Head(answer.items)) /\ fresh' = fresh + 1
            /\ inChunk' = Append(inChunk, Head(answer.items))
        BY <1>9, <3>2 DEF MergeClaim
      <4> QED BY <2>1, <4>1
    <3> QED BY <3>1, <3>2
  <2>4. pc' = "merge" /\ UNCHANGED <<pc, chunk, round, nodes, cancel, cache, runs>>
    BY <1>9 DEF MergeClaim
  <2> QED BY <2>2, <2>3, <2>4
<1>10. CASE NextRound
  BY <1>10 DEF NextRound, Merged, ChunkDone
<1>11. CASE NextChunk
  BY <1>11 DEF NextChunk, Merged
<1>12. CASE NextPass
  <2>1. answer \in [items : Seq(Claims), complete : BOOLEAN]
    BY <1>12 DEF NextPass, Merged
  <2> QED BY <1>12, <2>1 DEF NextPass, Merged
<1>13. CASE Finish
  BY <1>13 DEF Finish, Merged
<1>14. CASE UNCHANGED twoVars
  BY <1>14 DEF twoVars
<1> QED
  BY <1>1, <1>2, <1>3, <1>4, <1>5, <1>6, <1>7, <1>8, <1>9, <1>10, <1>11, <1>12, <1>13,
     <1>14 DEF TwoNext, Working

\* Every step keeps names and keys unique and seen_content exact.
LEMMA MergeStep == TwoTypeOK /\ MergeInv /\ [TwoNext]_twoVars => MergeInv'
<1> SUFFICES ASSUME TwoTypeOK, MergeInv, [TwoNext]_twoVars PROVE MergeInv'
  OBVIOUS
<1> USE DEF MergeInv, state
<1>1. CASE Run
  BY <1>1 DEF Run, Start, Elements
<1>2. CASE MergeNode
  <2> DEFINE n == Head(answer.items)
  <2>1. nodes \in Seq(Names) /\ n \in Names
    BY <1>2, HeadTail DEF MergeNode, TwoTypeOK
  <2>2. CASE n \in Elements(nodes)
    BY <1>2, <2>2 DEF MergeNode
  <2>3. CASE n \notin Elements(nodes)
    <3>1. nodes' = Append(nodes, n) /\ UNCHANGED <<claims, inChunk, seen>>
      BY <1>2, <2>3 DEF MergeNode
    <3>2. \A i, j \in DOMAIN nodes' : nodes'[i] = nodes'[j] => i = j
      BY <2>1, <2>3, <3>1, AppendElements DEF Elements
    <3> QED BY <3>1, <3>2
  <2> QED BY <2>2, <2>3
<1>3. CASE MergeClaim
  <2> DEFINE c == Head(answer.items)
  <2>1. claims \in Seq(Claims) /\ inChunk \in Seq(Claims) /\ c \in Claims
    BY <1>3, HeadTail DEF MergeClaim, TwoTypeOK
  <2>2. CASE Key(c) \in seen
    BY <1>3, <2>2 DEF MergeClaim
  <2>3. CASE Key(c) \notin seen
    <3>1. /\ claims' = Append(claims, c) /\ inChunk' = Append(inChunk, c)
          /\ seen' = seen \cup {Key(c)} /\ nodes' = nodes
      BY <1>3, <2>3 DEF MergeClaim
    <3>2. Elements(claims') = Elements(claims) \cup {c}
      BY <2>1, <3>1, AppendElements
    <3>3. Elements(inChunk') = Elements(inChunk) \cup {c}
      BY <2>1, <3>1, AppendElements
    <3>4. \A i \in DOMAIN claims : Key(claims[i]) # Key(c)
      BY <2>3 DEF Elements
    <3>5. \A i, j \in DOMAIN claims' : Key(claims'[i]) = Key(claims'[j]) => i = j
      BY <2>1, <3>1, <3>4, AppendElements
    <3> QED BY <3>1, <3>2, <3>3, <3>5
  <2> QED BY <2>2, <2>3
<1>4. CASE NextChunk
  BY <1>4 DEF NextChunk, Elements
<1>5. CASE Sigterm \/ Fail \/ Cancel \/ Refuse \/ Dispatch \/ Answer \/ NextRound
           \/ NextPass \/ Finish \/ UNCHANGED twoVars
  BY <1>5 DEF Sigterm, Fail, Cancel, Refuse, Dispatch, Answer, NextRound, NextPass,
              Finish, twoVars
<1> QED
  BY <1>1, <1>2, <1>3, <1>4, <1>5 DEF TwoNext, Working

\* Names and claim keys are merged once each, through cancels, failures and resumes.
THEOREM MergedOnce == TwoSpec => [](TwoTypeOK /\ MergeInv)
<1>1. TwoTypeOK /\ MergeInv /\ [TwoNext]_twoVars => (TwoTypeOK /\ MergeInv)'
  BY TypeStep, MergeStep
<1> QED BY InitTwo, <1>1, PTL DEF TwoSpec

\* A SIGTERM is followed by no further dispatch.
THEOREM CancelIsPrompt == TwoSpec => StopsAtBoundary
<1>1. [TwoNext]_twoVars => [cancel /\ cancel' => ~(pc = "ask" /\ pc' = "calling")]_twoVars
  BY DEF TwoNext, Working, Run, Sigterm, Fail, Cancel, Refuse, Dispatch, Answer, MergeNode,
         MergeClaim, NextRound, NextChunk, NextPass, Finish, Start, state, Merged
<1> QED BY <1>1, PTL DEF TwoSpec, StopsAtBoundary

--------------------------------------------------------------------------------
(* What a resumed run does.  A run is determined by the answers it gets,   *)
(* so the states it goes through are those of the runs before it, as far   *)
(* as the kept answers go.                                                 *)

Active == pc \in {"ask", "calling", "merge"}

\* What a run has in memory, with the number of answers it has taken.
Snap == [at |-> IF pc = "merge" THEN "merge" ELSE "call", pass |-> pass, chunk |-> chunk,
         round |-> round, nodes |-> nodes, claims |-> claims, inChunk |-> inChunk, seen |-> seen,
         answer |-> answer, fresh |-> fresh, taken |-> Len(asked)]

Beginning == [at |-> "call", pass |-> "nodes", chunk |-> 1, round |-> 1, nodes |-> <<>>,
              claims |-> <<>>, inChunk |-> <<>>, seen |-> {}, answer |-> NoAnswer, fresh |-> 0,
              taken |-> 0]

\* What the run sends from there.
Sends(x) == <<x.pass, x.chunk, x.nodes, [i \in DOMAIN x.inChunk |-> x.inChunk[i].proposition]>>

Exhausted(x) == x.answer.complete \/ x.fresh < MinNew \/ x.round = IterationMax

\* It goes on without an answer that is not in the cache.
GoesOn(kept, x) ==
    IF x.at = "call" THEN x.taken + 1 \in DOMAIN kept /\ kept[x.taken + 1].prompt = Sends(x)
    ELSE x.answer.items = <<>> /\ Exhausted(x) => x.chunk < Chunks \/ x.pass = "nodes"

Took(x) ==
    LET item == Head(x.answer.items)
        rest == [x.answer EXCEPT !.items = Tail(@)]
    IN  IF x.pass = "nodes"
        THEN IF item \in Elements(x.nodes) THEN [x EXCEPT !.answer = rest]
             ELSE [x EXCEPT !.answer = rest, !.nodes = Append(@, item), !.fresh = @ + 1]
        ELSE IF Key(item) \in x.seen THEN [x EXCEPT !.answer = rest]
             ELSE [at |-> x.at, pass |-> x.pass, chunk |-> x.chunk, round |-> x.round,
                   nodes |-> x.nodes, claims |-> Append(x.claims, item),
                   inChunk |-> Append(x.inChunk, item), seen |-> x.seen \cup {Key(item)},
                   answer |-> rest, fresh |-> x.fresh + 1, taken |-> x.taken]

\* Where it then is.
Then(kept, x) ==
    IF x.at = "call"
    THEN [x EXCEPT !.at = "merge", !.answer = kept[x.taken + 1].answer, !.fresh = 0,
                   !.taken = @ + 1]
    ELSE IF x.answer.items # <<>> THEN Took(x)
    ELSE IF ~Exhausted(x) THEN [x EXCEPT !.at = "call", !.round = @ + 1]
    ELSE IF x.chunk < Chunks
         THEN [x EXCEPT !.at = "call", !.chunk = @ + 1, !.round = 1, !.inChunk = <<>>]
         ELSE [x EXCEPT !.at = "call", !.pass = "claims", !.chunk = 1, !.round = 1]

\* All that a run goes through with the answers that are kept: from the beginning, on and on
\* to a last place, which has taken all of them; the run that is up is at one of them.
Course(kept, R, last) ==
    /\ Beginning \in R /\ last \in R /\ last.taken = Len(kept)
    /\ \A x \in R : x # last => GoesOn(kept, x) /\ Then(kept, x) \in R

CourseInv == \E R, last : Course(cache, R, last) /\ (Active => Snap \in R)

\* No prompt is answered twice.
Prompts == {"nodes", "claims"} \X (1 .. Chunks) \X Seq(Names) \X Seq({c.proposition : c \in Claims})

UniqueInv == \A i, j \in DOMAIN cache : cache[i].prompt = cache[j].prompt => i = j

AskedInv ==
    /\ asked \in Seq(Prompts) /\ Len(asked) <= Len(cache)
    /\ \A i \in DOMAIN asked : asked[i] = cache[i].prompt

\* A prompt is of an earlier pass or chunk, or lists less.
Before(p, ps, ch, n) ==
    \/ p[1] = "nodes" /\ ps = "claims"
    \/ p[1] = ps /\ (p[2] < ch \/ (p[2] = ch /\ Len(p[3]) + Len(p[4]) < n))

\* A run never comes back to a prompt: each round brought something that the next one lists.
OrderInv ==
    Active => \A i \in DOMAIN asked :
        Before(asked[i], pass, chunk,
               Len(nodes) + Len(inChunk) + (IF pc = "merge" THEN 1 - fresh ELSE 0))

\* All that was answered is merged, or in what is left of the last answer.
Got(p) == UNION {Elements(cache[i].answer.items) : i \in {j \in DOMAIN asked : asked[j][1] = p}}
Left(p) == IF pass = p THEN Elements(answer.items) ELSE {}

SummaryInv ==
    Active => /\ Elements(nodes) \cup Left("nodes") = Got("nodes")
              /\ seen \cup {Key(c) : c \in Left("claims")} = {Key(c) : c \in Got("claims")}

ReplayInv == TwoTypeOK /\ UniqueInv /\ AskedInv /\ OrderInv /\ SummaryInv /\ CourseInv

\* What is sent has its type.
LEMMA PromptType ==
    ASSUME TwoTypeOK
    PROVE  Prompt \in Prompts /\ Sends(Snap) = Prompt /\ Len(Exclude) = Len(inChunk)
<1>1. Exclude \in Seq({c.proposition : c \in Claims}) /\ Len(Exclude) = Len(inChunk)
  BY DEF TwoTypeOK, Exclude
<1>2. Prompt \in Prompts
  BY <1>1 DEF TwoTypeOK, Prompt, Prompts
<1>3. Sends(Snap) = Prompt
  BY DEF Sends, Snap, Prompt, Exclude
<1> QED BY <1>1, <1>2, <1>3

\* A run that goes on from a place of the course comes to one, or makes the course longer.
LEMMA CourseGoesOn ==
    ASSUME NEW kept, NEW kept1, NEW R, NEW last, Course(kept, R, last), NEW x \in R, NEW y,
           Len(kept) \in Nat, DOMAIN kept \subseteq DOMAIN kept1,
           \A i \in DOMAIN kept : kept1[i] = kept[i],
           GoesOn(kept1, x), Then(kept1, x) = y,
           x # last => kept1 = kept, x = last => y.taken = Len(kept1)
    PROVE  \E R1, last1 : Course(kept1, R1, last1) /\ y \in R1
<1>1. CASE x # last
  BY <1>1 DEF Course
<1>2. CASE x = last
  <2>1. ASSUME NEW z \in R, z # last PROVE GoesOn(kept1, z) /\ Then(kept1, z) \in R
    <3>1. GoesOn(kept, z) /\ Then(kept, z) \in R
      BY <2>1 DEF Course
    <3>2. CASE z.at = "call"
      <4>1. z.taken + 1 \in DOMAIN kept /\ kept[z.taken + 1].prompt = Sends(z)
        BY <3>1, <3>2 DEF GoesOn
      <4>2. kept1[z.taken + 1] = kept[z.taken + 1] /\ z.taken + 1 \in DOMAIN kept1
        BY <4>1
      <4> QED BY <3>1, <3>2, <4>1, <4>2 DEF GoesOn, Then
    <3>3. CASE z.at # "call"
      BY <3>1, <3>3 DEF GoesOn, Then
    <3> QED BY <3>2, <3>3
  <2>2. Course(kept1, R \cup {y}, y)
    <3>1. Beginning \in R \cup {y} /\ y \in R \cup {y} /\ y.taken = Len(kept1)
      BY <1>2 DEF Course
    <3>2. ASSUME NEW z \in R \cup {y}, z # y PROVE GoesOn(kept1, z) /\ Then(kept1, z) \in R \cup {y}
      BY <1>2, <2>1, <3>2
    <3> QED BY <3>1, <3>2 DEF Course
  <2> QED BY <2>2
<1> QED BY <1>1, <1>2

\* A prompt that comes before is another one.
LEMMA NotAsked ==
    ASSUME TwoTypeOK, AskedInv, OrderInv, pc \in {"ask", "calling"}
    PROVE  \A i \in DOMAIN asked : asked[i] # Prompt
<1> SUFFICES ASSUME NEW i \in DOMAIN asked, asked[i] = Prompt PROVE FALSE
  OBVIOUS
<1>1. Before(Prompt, pass, chunk, Len(nodes) + Len(inChunk) + 0)
  BY DEF OrderInv, Active
<1>2. /\ Prompt[1] = pass /\ Prompt[2] = chunk /\ Prompt[3] = nodes /\ Prompt[4] = Exclude
      /\ Len(Exclude) = Len(inChunk)
  BY PromptType DEF Prompt
<1>3. Len(nodes) \in Nat /\ Len(inChunk) \in Nat /\ chunk \in Nat /\ pass \in {"nodes", "claims"}
  BY CountsAssumption DEF TwoTypeOK
<1> QED BY <1>1, <1>2, <1>3 DEF Before

\* The next kept answer is the one to what is sent; when all were taken, there is none.
LEMMA NextKept ==
    ASSUME ReplayInv, pc \in {"ask", "calling"}, NEW R, NEW last, Course(cache, R, last), Snap \in R
    PROVE  /\ Snap # last => Len(asked) + 1 \in DOMAIN cache /\ Cached = {Len(asked) + 1}
           /\ Snap = last => Len(asked) = Len(cache) /\ Cached = {}
<1>1. Snap.at = "call" /\ Snap.taken = Len(asked) /\ Sends(Snap) = Prompt
  BY PromptType DEF Snap, ReplayInv
<1>2. CASE Snap # last
  <2>1. GoesOn(cache, Snap)
    BY <1>2 DEF Course
  <2>2. Len(asked) + 1 \in DOMAIN cache /\ cache[Len(asked) + 1].prompt = Prompt
    BY <1>1, <2>1 DEF GoesOn
  <2>3. Cached = {Len(asked) + 1}
    BY <2>2 DEF Cached, ReplayInv, UniqueInv
  <2> QED BY <1>2, <2>2, <2>3
<1>3. CASE Snap = last
  <2>1. Len(asked) = Len(cache)
    BY <1>1, <1>3 DEF Course
  <2>2. DOMAIN asked = DOMAIN cache
    BY <2>1 DEF ReplayInv, AskedInv, TwoTypeOK
  <2>3. \A i \in DOMAIN cache : cache[i].prompt # Prompt
    BY <2>2, NotAsked DEF ReplayInv, AskedInv
  <2> QED BY <1>3, <2>1, <2>3 DEF Cached
<1> QED BY <1>2, <1>3

\* What an answer adds: to what was asked the prompt, and to what is kept the answer, unless
\* it was kept.
LEMMA AnswerFacts ==
    ASSUME ReplayInv, Answer
    PROVE  /\ asked' = Append(asked, Prompt)
           /\ Len(asked') = Len(asked) + 1 /\ DOMAIN asked' = DOMAIN asked \cup {Len(asked) + 1}
           /\ \A i \in DOMAIN asked : asked'[i] = asked[i]
           /\ asked'[Len(asked) + 1] = Prompt /\ asked' \in Seq(Prompts)
           /\ Len(asked) + 1 \in DOMAIN cache'
           /\ cache'[Len(asked) + 1].prompt = Prompt /\ cache'[Len(asked) + 1].answer = answer'
           /\ DOMAIN cache \subseteq DOMAIN cache' /\ \A i \in DOMAIN cache : cache'[i] = cache[i]
           /\ Len(cache') \in Nat /\ Len(asked) + 1 <= Len(cache')
           /\ \/ Cached # {} /\ cache' = cache
              \/ Cached = {} /\ Len(cache') = Len(cache) + 1 /\ Len(asked) = Len(cache)
           /\ UniqueInv'
<1>1. PICK R, last : Course(cache, R, last) /\ Snap \in R
  BY DEF ReplayInv, CourseInv, Answer, Active
<1>2. /\ Snap # last => Len(asked) + 1 \in DOMAIN cache /\ Cached = {Len(asked) + 1}
      /\ Snap = last => Len(asked) = Len(cache) /\ Cached = {}
  BY <1>1, NextKept DEF Answer
<1>3. asked \in Seq(Prompts) /\ Prompt \in Prompts /\ Len(asked) \in Nat
      /\ DOMAIN asked = 1 .. Len(asked) /\ asked' = Append(asked, Prompt)
  BY PromptType DEF ReplayInv, AskedInv, Answer
<1>4. /\ Len(asked') = Len(asked) + 1 /\ DOMAIN asked' = DOMAIN asked \cup {Len(asked) + 1}
      /\ \A i \in DOMAIN asked : asked'[i] = asked[i]
      /\ asked'[Len(asked) + 1] = Prompt /\ asked' \in Seq(Prompts)
  BY <1>3
<1>5. Len(cache) \in Nat /\ DOMAIN cache = 1 .. Len(cache)
  BY DEF ReplayInv, TwoTypeOK
<1>6. CASE Snap # last
  <2>1. cache' = cache /\ Cached = {Len(asked) + 1} /\ answer' = cache[Len(asked) + 1].answer
    BY <1>2, <1>6 DEF Answer
  <2>2. cache[Len(asked) + 1].prompt = Prompt
    BY <2>1 DEF Cached
  <2>3. UniqueInv'
    BY <2>1 DEF ReplayInv, UniqueInv
  <2>4. Len(asked) + 1 \in DOMAIN cache /\ Len(asked) + 1 <= Len(cache)
    <3>1. Len(asked) + 1 \in 1 .. Len(cache)
      BY <1>2, <1>5, <1>6
    <3> QED BY <1>5, <3>1
  <2> QED BY <1>3, <1>4, <1>5, <2>1, <2>2, <2>3, <2>4
<1>7. CASE Snap = last
  <2>1. cache' = Append(cache, [prompt |-> Prompt, answer |-> answer']) /\ Cached = {}
        /\ Len(asked) = Len(cache)
    BY <1>2, <1>7 DEF Answer
  <2>2. /\ Len(cache') = Len(cache) + 1 /\ DOMAIN cache' = DOMAIN cache \cup {Len(cache) + 1}
        /\ \A i \in DOMAIN cache : cache'[i] = cache[i]
        /\ cache'[Len(cache) + 1] = [prompt |-> Prompt, answer |-> answer']
    <3>1. PICK K : cache \in Seq(K)
      BY DEF ReplayInv, TwoTypeOK
    <3> QED BY <2>1, <3>1
  <2>3. \A i \in DOMAIN cache : cache[i].prompt # Prompt
    BY <2>1 DEF Cached
  <2>4. UniqueInv'
    BY <2>2, <2>3 DEF ReplayInv, UniqueInv
  <2> QED BY <1>3, <1>4, <1>5, <2>1, <2>2, <2>4
<1> QED BY <1>6, <1>7

\* Each step of a run that is up goes on as the cache says.
LEMMA StepsGoOn ==
    ASSUME ReplayInv,
           Answer \/ MergeNode \/ MergeClaim \/ NextRound \/ NextChunk \/ NextPass
    PROVE  GoesOn(cache', Snap) /\ Then(cache', Snap) = Snap'
<1> USE DEF Snap, GoesOn, Then
<1>1. CASE Answer
  <2>1. pc = "calling" /\ pc' = "merge" /\ fresh' = 0 /\ Sends(Snap) = Prompt
        /\ UNCHANGED <<pass, chunk, round, nodes, claims, inChunk, seen>>
    BY <1>1, PromptType DEF Answer, ReplayInv
  <2>2. /\ Len(asked') = Len(asked) + 1 /\ Len(asked) + 1 \in DOMAIN cache'
        /\ cache'[Len(asked) + 1].prompt = Prompt /\ cache'[Len(asked) + 1].answer = answer'
    BY <1>1, AnswerFacts
  <2> QED BY <2>1, <2>2
<1>2. CASE MergeNode
  <2>1. /\ pc = "merge" /\ pc' = "merge" /\ pass = "nodes" /\ answer.items # <<>>
        /\ answer' = [answer EXCEPT !.items = Tail(@)]
        /\ UNCHANGED <<pass, chunk, round, claims, inChunk, seen, asked>>
    BY <1>2 DEF MergeNode
  <2>2. GoesOn(cache', Snap) /\ Then(cache', Snap) = Took(Snap)
    BY <2>1
  <2>3. CASE Head(answer.items) \in Elements(nodes)
    <3>1. UNCHANGED <<nodes, fresh>>
      BY <1>2, <2>3 DEF MergeNode
    <3> QED BY <2>1, <2>2, <2>3, <3>1 DEF Took
  <2>4. CASE Head(answer.items) \notin Elements(nodes)
    <3>1. nodes' = Append(nodes, Head(answer.items)) /\ fresh' = fresh + 1
      BY <1>2, <2>4 DEF MergeNode
    <3> QED BY <2>1, <2>2, <2>4, <3>1 DEF Took
  <2> QED BY <2>3, <2>4
<1>3. CASE MergeClaim
  <2>1. /\ pc = "merge" /\ pc' = "merge" /\ pass = "claims" /\ answer.items # <<>>
        /\ answer' = [answer EXCEPT !.items = Tail(@)]
        /\ UNCHANGED <<pass, chunk, round, nodes, asked>>
    BY <1>3 DEF MergeClaim
  <2>2. GoesOn(cache', Snap) /\ Then(cache', Snap) = Took(Snap)
    BY <2>1
  <2>3. CASE Key(Head(answer.items)) \in seen
    <3>1. UNCHANGED <<claims, inChunk, seen, fresh>>
      BY <1>3, <2>3 DEF MergeClaim
    <3> QED BY <2>1, <2>2, <2>3, <3>1 DEF Took
  <2>4. CASE Key(Head(answer.items)) \notin seen
    <3>1. /\ claims' = Append(claims, Head(answer.items))
          /\ inChunk' = Append(inChunk, Head(answer.items))
          /\ seen' = seen \cup {Key(Head(answer.items))} /\ fresh' = fresh + 1
      BY <1>3, <2>4 DEF MergeClaim
    <3> QED BY <2>1, <2>2, <2>4, <3>1 DEF Took
  <2> QED BY <2>3, <2>4
<1>4. CASE NextRound
  BY <1>4 DEF NextRound, Merged, ChunkDone, Exhausted
<1>5. CASE NextChunk
  BY <1>5 DEF NextChunk, Merged, ChunkDone, Exhausted
<1>6. CASE NextPass
  <2>1. /\ pc = "merge" /\ pass = "nodes" /\ chunk = Chunks /\ answer.items = <<>> /\ ~(chunk < Chunks)
        /\ pc' = "ask" /\ pass' = "claims" /\ chunk' = 1 /\ round' = 1 /\ asked' = asked
        /\ UNCHANGED <<nodes, claims, inChunk, seen, answer, fresh>>
    BY <1>6, CountsAssumption DEF NextPass, Merged
  <2>2. ChunkDone
    BY <1>6 DEF NextPass
  <2> QED BY <2>1, <2>2 DEF ChunkDone, Exhausted
<1> QED BY <1>1, <1>2, <1>3, <1>4, <1>5, <1>6

\* The course of the run stays, or grows with it.
LEMMA CourseStep == ReplayInv /\ [TwoNext]_twoVars => CourseInv'
<1> SUFFICES ASSUME ReplayInv, [TwoNext]_twoVars PROVE CourseInv'
  OBVIOUS
<1> USE DEF ReplayInv
<1>1. PICK R, last : Course(cache, R, last) /\ (Active => Snap \in R)
  BY DEF CourseInv
<1>2. CASE Run
  <2>1. Snap' = Beginning /\ cache' = cache
    BY <1>2 DEF Run, Start, Snap, Beginning
  <2> QED BY <1>1, <2>1 DEF CourseInv, Course
<1>3. CASE Sigterm \/ Fail \/ Cancel \/ Refuse \/ Dispatch \/ Finish \/ UNCHANGED twoVars
  <2>1. cache' = cache /\ (Active' => Active /\ Snap' = Snap)
    BY <1>3 DEF Sigterm, Fail, Cancel, Refuse, Dispatch, Finish, twoVars, state, Active, Snap
  <2> QED BY <1>1, <2>1 DEF CourseInv
<1>4. CASE Answer \/ MergeNode \/ MergeClaim \/ NextRound \/ NextChunk \/ NextPass
  <2>1. Active /\ Snap \in R
    BY <1>1, <1>4 DEF Active, Answer, MergeNode, MergeClaim, NextRound, NextChunk, NextPass, Merged
  <2>2. GoesOn(cache', Snap) /\ Then(cache', Snap) = Snap'
    BY <1>4, StepsGoOn
  <2>3. Len(cache) \in Nat
    BY DEF TwoTypeOK
  <2>4. /\ DOMAIN cache \subseteq DOMAIN cache' /\ \A i \in DOMAIN cache : cache'[i] = cache[i]
        /\ Snap # last => cache' = cache
        /\ Snap = last => Snap'.taken = Len(cache')
    <3>1. CASE Answer
      <4>1. /\ Snap # last => Cached # {}
            /\ Snap = last => Cached = {}
        BY <1>1, <2>1, <3>1, NextKept DEF Answer
      <4>2. Snap'.taken = Len(asked')
        BY DEF Snap
      <4> QED BY <3>1, <4>1, <4>2, AnswerFacts
    <3>2. CASE ~Answer
      <4>1. cache' = cache /\ asked' = asked
        BY <1>4, <3>2 DEF MergeNode, MergeClaim, NextRound, NextChunk, NextPass
      <4>2. Snap'.taken = Snap.taken
        BY <4>1 DEF Snap
      <4>3. last.taken = Len(cache)
        BY <1>1 DEF Course
      <4> QED BY <4>1, <4>2, <4>3
    <3> QED BY <3>1, <3>2
  <2>5. \E R1, last1 : Course(cache', R1, last1) /\ Snap' \in R1
    BY <1>1, <2>1, <2>2, <2>3, <2>4, CourseGoesOn
  <2> QED BY <2>5 DEF CourseInv
<1> QED BY <1>2, <1>3, <1>4 DEF TwoNext, Working

\* What was asked stays what the cache has been asked.
LEMMA AskedStep == ReplayInv /\ [TwoNext]_twoVars => AskedInv' /\ UniqueInv'
<1> SUFFICES ASSUME ReplayInv, [TwoNext]_twoVars PROVE AskedInv' /\ UniqueInv'
  OBVIOUS
<1>0. AskedInv /\ UniqueInv /\ Len(cache) \in Nat /\ DOMAIN asked \subseteq DOMAIN cache
  BY DEF ReplayInv, AskedInv, TwoTypeOK
<1>1. CASE Answer
  <2>1. UniqueInv' /\ asked' \in Seq(Prompts) /\ Len(asked') <= Len(cache')
    BY <1>0, <1>1, AnswerFacts
  <2>2. ASSUME NEW i \in DOMAIN asked' PROVE asked'[i] = cache'[i].prompt
    <3>1. CASE i \in DOMAIN asked
      BY <1>0, <1>1, <3>1, AnswerFacts DEF AskedInv
    <3>2. CASE i = Len(asked) + 1
      BY <1>1, <3>2, AnswerFacts
    <3> QED BY <1>1, <3>1, <3>2, AnswerFacts
  <2> QED BY <2>1, <2>2 DEF AskedInv
<1>2. CASE Run
  <2>1. asked' = <<>> /\ cache' = cache
    BY <1>2 DEF Run, Start
  <2> QED BY <1>0, <2>1 DEF AskedInv, UniqueInv
<1>3. CASE ~Answer /\ ~Run
  <2>1. UNCHANGED <<asked, cache>>
    BY <1>3 DEF TwoNext, Working, Sigterm, Fail, Cancel, Refuse, Dispatch, MergeNode, MergeClaim,
                NextRound, NextChunk, NextPass, Finish, twoVars
  <2> QED BY <1>0, <2>1 DEF AskedInv, UniqueInv
<1> QED BY <1>1, <1>2, <1>3

\* What comes before a place comes before a later one of its chunk.
LEMMA BeforeMore ==
    ASSUME NEW p \in Prompts, NEW ps, NEW ch \in Nat, NEW n \in Int, NEW m \in Int, n <= m,
           Before(p, ps, ch, n)
    PROVE  /\ Before(p, ps, ch, m)
           /\ \/ p[1] = "nodes" /\ ps = "claims"
              \/ p[1] = ps /\ p[2] <= ch
<1>0. Len(p[3]) \in Nat /\ Len(p[4]) \in Nat
  BY DEF Prompts
<1>1. p[2] \in Nat
  BY CountsAssumption DEF Prompts
<1>2. CASE p[1] = "nodes" /\ ps = "claims"
  BY <1>2 DEF Before
<1>3. CASE p[1] = ps /\ p[2] < ch
  <2>1. p[2] <= ch
    BY <1>1, <1>3
  <2> QED BY <1>3, <2>1, Zenon DEF Before
<1>4. CASE p[1] = ps /\ p[2] = ch /\ Len(p[3]) + Len(p[4]) < n
  <2>1. Len(p[3]) + Len(p[4]) < m
    <3>0. \A i, j \in Nat : i + j \in Int
      OBVIOUS
    <3>1. PICK k \in Int : k = Len(p[3]) + Len(p[4])
      BY <1>0, <3>0, Zenon
    <3>2. k < n
      BY <1>4, <3>1, Zenon
    <3>3. k < m
      BY <3>2
    <3> QED BY <3>1, <3>3, Zenon
  <2>2. p[2] <= ch
    BY <1>1, <1>4
  <2> QED BY <1>4, <2>1, <2>2, Zenon DEF Before
<1> QED BY <1>2, <1>3, <1>4, Zenon DEF Before

\* The prompts of a run keep coming one after the other.
LEMMA OrderStep == ReplayInv /\ [TwoNext]_twoVars => OrderInv'
<1> SUFFICES ASSUME ReplayInv, [TwoNext]_twoVars PROVE OrderInv'
  OBVIOUS
<1> DEFINE size == Len(nodes) + Len(inChunk)
<1>0. /\ Len(nodes) \in Nat /\ Len(inChunk) \in Nat /\ fresh \in Nat /\ chunk \in Nat
      /\ pass \in {"nodes", "claims"} /\ nodes \in Seq(Names) /\ inChunk \in Seq(Claims)
      /\ asked \in Seq(Prompts) /\ MinNew \in Nat \ {0}
      /\ \A i \in DOMAIN asked : /\ asked[i] \in Prompts /\ asked[i][1] \in {"nodes", "claims"}
                                 /\ asked[i][2] \in 1 .. Chunks
  <2>1. asked \in Seq(Prompts)
    BY DEF ReplayInv, AskedInv
  <2>2. \A i \in DOMAIN asked : asked[i] \in Prompts
    BY <2>1
  <2>3. \A p \in Prompts : p[1] \in {"nodes", "claims"} /\ p[2] \in 1 .. Chunks
    BY DEF Prompts
  <2> QED BY <2>1, <2>2, <2>3, CountsAssumption DEF ReplayInv, TwoTypeOK
<1>1. CASE Answer
  <2>1. pc = "calling" /\ pc' = "merge" /\ fresh' = 0 /\ UNCHANGED <<pass, chunk, nodes, inChunk>>
    BY <1>1 DEF Answer
  <2>2. ASSUME NEW i \in DOMAIN asked' PROVE Before(asked'[i], pass, chunk, size + 1)
    <3>1. CASE i \in DOMAIN asked
      <4>1. Before(asked[i], pass, chunk, size + 0)
        BY <2>1, <3>1 DEF ReplayInv, OrderInv, Active
      <4>2. asked[i] \in Prompts /\ asked'[i] = asked[i]
        BY <1>0, <1>1, <3>1, AnswerFacts
      <4>3. size + 0 \in Int /\ size + 1 \in Int /\ size + 0 <= size + 1
        BY <1>0
      <4>4. Before(asked[i], pass, chunk, size + 1)
        <5> HIDE DEF size
        <5> QED BY <1>0, <4>1, <4>2, <4>3, BeforeMore
      <4> QED BY <4>2, <4>4
    <3>2. CASE i = Len(asked) + 1
      <4>1. asked'[i] = Prompt
        BY <1>1, <3>2, AnswerFacts
      <4>2. /\ Prompt[1] = pass /\ Prompt[2] = chunk /\ Len(Prompt[3]) = Len(nodes)
            /\ Len(Prompt[4]) = Len(inChunk)
        BY PromptType DEF Prompt, ReplayInv
      <4> QED BY <1>0, <4>1, <4>2 DEF Before
    <3> QED BY <1>1, <3>1, <3>2, AnswerFacts
  <2> QED BY <2>1, <2>2 DEF OrderInv
<1>2. CASE Run
  <2>1. DOMAIN asked' = {}
    BY <1>2 DEF Run, Start
  <2> QED BY <2>1 DEF OrderInv
<1>3. CASE Sigterm \/ Fail \/ Cancel \/ Refuse \/ Dispatch \/ Finish \/ UNCHANGED twoVars
  <2>1. /\ UNCHANGED <<asked, pass, chunk, nodes, inChunk, fresh>>
        /\ Active' => Active /\ (pc' = "merge" <=> pc = "merge")
    BY <1>3 DEF Sigterm, Fail, Cancel, Refuse, Dispatch, Finish, twoVars, state, Active
  <2> QED BY <2>1 DEF ReplayInv, OrderInv
<1>4. ASSUME pc = "merge", NEW i \in DOMAIN asked PROVE Before(asked[i], pass, chunk, size + (1 - fresh))
  BY <1>4 DEF ReplayInv, OrderInv, Active
<1>5. CASE MergeNode \/ MergeClaim
  <2>1. /\ UNCHANGED <<asked, pass, chunk>> /\ pc = "merge" /\ pc' = "merge"
        /\ Len(nodes') + Len(inChunk') + (1 - fresh') = size + (1 - fresh)
    <3>1. CASE MergeNode
      <4>1. Head(answer.items) \in Names
        BY <3>1, HeadTail DEF MergeNode, ReplayInv, TwoTypeOK
      <4>2. \/ UNCHANGED <<nodes, fresh>>
            \/ nodes' = Append(nodes, Head(answer.items)) /\ fresh' = fresh + 1
        BY <3>1 DEF MergeNode
      <4>3. \/ UNCHANGED <<nodes, fresh>>
            \/ Len(nodes') = Len(nodes) + 1 /\ fresh' = fresh + 1
        BY <1>0, <4>1, <4>2
      <4>4. UNCHANGED <<asked, pass, chunk, inChunk, pc>> /\ pc = "merge"
        BY <3>1 DEF MergeNode
      <4>5. CASE UNCHANGED <<nodes, fresh>>
        BY <4>4, <4>5
      <4>6. CASE Len(nodes') = Len(nodes) + 1 /\ fresh' = fresh + 1
        BY <1>0, <4>4, <4>6
      <4> QED BY <4>3, <4>5, <4>6
    <3>2. CASE MergeClaim
      <4>1. Head(answer.items) \in Claims
        BY <3>2, HeadTail DEF MergeClaim, ReplayInv, TwoTypeOK
      <4>2. \/ UNCHANGED <<inChunk, fresh>>
            \/ inChunk' = Append(inChunk, Head(answer.items)) /\ fresh' = fresh + 1
        BY <3>2 DEF MergeClaim
      <4>3. \/ UNCHANGED <<inChunk, fresh>>
            \/ Len(inChunk') = Len(inChunk) + 1 /\ fresh' = fresh + 1
        BY <1>0, <4>1, <4>2
      <4>4. UNCHANGED <<asked, pass, chunk, nodes, pc>> /\ pc = "merge"
        BY <3>2 DEF MergeClaim
      <4>5. CASE UNCHANGED <<inChunk, fresh>>
        BY <4>4, <4>5
      <4>6. CASE Len(inChunk') = Len(inChunk) + 1 /\ fresh' = fresh + 1
        BY <1>0, <4>4, <4>6
      <4> QED BY <4>3, <4>5, <4>6
    <3> QED BY <1>5, <3>1, <3>2
  <2> QED BY <1>4, <2>1 DEF OrderInv
<1>6. CASE NextRound
  <2>1. /\ UNCHANGED <<asked, pass, chunk, nodes, inChunk>> /\ pc = "merge" /\ pc' = "ask"
        /\ ~(fresh < MinNew)
    BY <1>6 DEF NextRound, Merged, ChunkDone
  <2>2. size + (1 - fresh) \in Int /\ size + 0 \in Int /\ size + (1 - fresh) <= size + 0
    BY <1>0, <2>1
  <2>3. ASSUME NEW i \in DOMAIN asked PROVE Before(asked[i], pass, chunk, size + 0)
    BY <1>0, <1>4, <2>1, <2>2, BeforeMore
  <2> QED BY <2>1, <2>3 DEF OrderInv
<1>7. CASE NextChunk \/ NextPass
  <2>1. UNCHANGED asked /\ pc = "merge" /\ pc' = "ask"
        /\ \/ chunk' = chunk + 1 /\ pass' = pass
           \/ pass = "nodes" /\ pass' = "claims"
    BY <1>7 DEF NextChunk, NextPass, Merged
  <2>2. ASSUME NEW i \in DOMAIN asked, NEW n PROVE Before(asked[i], pass', chunk', n)
    <3>1. asked[i] \in Prompts /\ asked[i][2] \in Nat /\ size + (1 - fresh) \in Int
      BY <1>0, CountsAssumption
    <3>2. \/ asked[i][1] = "nodes" /\ pass = "claims"
          \/ asked[i][1] = pass /\ asked[i][2] <= chunk
      <4>1. Before(asked[i], pass, chunk, size + (1 - fresh))
        BY <1>4, <2>1
      <4> HIDE DEF size
      <4> QED BY <1>0, <3>1, <4>1, BeforeMore
    <3>3. CASE pass = "nodes" /\ pass' = "claims"
      BY <3>2, <3>3 DEF Before
    <3>4. CASE pass' = pass /\ chunk' = chunk + 1
      <4>1. asked[i][1] = pass => asked[i][2] < chunk'
        BY <1>0, <3>1, <3>2, <3>4
      <4> QED BY <3>2, <3>4, <4>1 DEF Before
    <3> QED BY <2>1, <3>3, <3>4
  <2> QED BY <2>1, <2>2 DEF OrderInv
<1> QED BY <1>1, <1>2, <1>3, <1>5, <1>6, <1>7 DEF TwoNext, Working

\* What was answered stays accounted for.
LEMMA SummaryStep == ReplayInv /\ [TwoNext]_twoVars => SummaryInv'
<1> SUFFICES ASSUME ReplayInv, [TwoNext]_twoVars PROVE SummaryInv'
  OBVIOUS
<1>1. CASE Answer
  <2>1. /\ pc = "calling" /\ answer.items = <<>> /\ UNCHANGED <<pass, nodes, seen>> /\ pass \in {"nodes", "claims"}
    BY <1>1 DEF Answer, ReplayInv, TwoTypeOK
  <2>2. Elements(<<>>) = {}
    BY DEF Elements
  <2>3. Elements(nodes) = Got("nodes") /\ seen = {Key(c) : c \in Got("claims")}
    BY <2>1, <2>2 DEF ReplayInv, SummaryInv, Active, Left
  <2>4. ASSUME NEW p PROVE Got(p)' = Got(p) \cup Left(p)'
    <3> DEFINE of(i) == Elements(cache'[i].answer.items)
    <3>1. \A i \in DOMAIN asked : asked'[i] = asked[i] /\ cache'[i] = cache[i]
      BY <1>1, AnswerFacts DEF ReplayInv, AskedInv, TwoTypeOK
    <3>2. /\ DOMAIN asked' = DOMAIN asked \cup {Len(asked) + 1}
          /\ asked'[Len(asked) + 1][1] = pass /\ of(Len(asked) + 1) = Elements(answer'.items)
      BY <1>1, AnswerFacts DEF Prompt
    <3>3. Got(p)' = UNION {of(i) : i \in {j \in DOMAIN asked' : asked'[j][1] = p}}
      BY DEF Got
    <3>4. Got(p) = UNION {of(i) : i \in {j \in DOMAIN asked : asked[j][1] = p}}
      BY <3>1 DEF Got
    <3>5. {j \in DOMAIN asked' : asked'[j][1] = p}
              = {j \in DOMAIN asked : asked[j][1] = p} \cup (IF pass = p THEN {Len(asked) + 1} ELSE {})
      BY <3>1, <3>2
    <3>6. Left(p)' = IF pass = p THEN of(Len(asked) + 1) ELSE {}
      BY <2>1, <3>2 DEF Left
    <3> HIDE DEF of
    <3> QED BY <3>3, <3>4, <3>5, <3>6
  <2>5. {Key(c) : c \in Got("claims")'} = {Key(c) : c \in Got("claims")} \cup {Key(c) : c \in Left("claims")'}
    BY <2>4
  <2> QED BY <2>1, <2>3, <2>4, <2>5 DEF SummaryInv
<1>2. CASE Run
  <2>1. /\ nodes' = <<>> /\ seen' = {} /\ asked' = <<>> /\ answer'.items = <<>>
    BY <1>2 DEF Run, Start, NoAnswer
  <2>2. Elements(nodes') = {} /\ Elements(answer'.items) = {}
    BY <2>1 DEF Elements
  <2>3. ASSUME NEW p PROVE Got(p)' = {} /\ Left(p)' = {}
    BY <2>1, <2>2 DEF Got, Left
  <2> QED BY <2>1, <2>2, <2>3 DEF SummaryInv
<1>3. ASSUME ~Answer, ~Run, NEW p PROVE Got(p)' = Got(p)
  <2>1. UNCHANGED <<asked, cache>>
    BY <1>3 DEF TwoNext, Working, Sigterm, Fail, Cancel, Refuse, Dispatch, MergeNode, MergeClaim,
                NextRound, NextChunk, NextPass, Finish, twoVars
  <2> QED BY <2>1 DEF Got
<1>4. CASE MergeNode
  <2> DEFINE n == Head(answer.items)
  <2>1. /\ n \in Names /\ nodes \in Seq(Names) /\ answer.items \in Seq(Names) /\ answer.items # <<>>
        /\ Active /\ pass = "nodes" /\ UNCHANGED <<pass, seen>> /\ answer'.items = Tail(answer.items)
    BY <1>4, HeadTail DEF MergeNode, ReplayInv, TwoTypeOK, Active
  <2>2. Elements(answer.items) = {n} \cup Elements(answer'.items)
    BY <2>1, HeadTailElements
  <2>3. Elements(nodes') = Elements(nodes) \cup {n}
    <3>1. (n \in Elements(nodes) /\ nodes' = nodes) \/ nodes' = Append(nodes, n)
      BY <1>4 DEF MergeNode
    <3>2. CASE n \in Elements(nodes) /\ nodes' = nodes
      BY <3>2
    <3>3. CASE nodes' = Append(nodes, n)
      <4>1. Elements(Append(nodes, n)) = Elements(nodes) \cup {n}
        BY <2>1, AppendElements
      <4> QED BY <3>3, <4>1
    <3> QED BY <3>1, <3>2, <3>3
  <2>4. ~Answer /\ ~Run
    BY <1>4 DEF MergeNode, Answer, Run
  <2> QED BY <1>3, <2>1, <2>2, <2>3, <2>4 DEF ReplayInv, SummaryInv, Left
<1>5. CASE MergeClaim
  <2> DEFINE c == Head(answer.items)
  <2>1. /\ c \in Claims /\ answer.items \in Seq(Claims) /\ answer.items # <<>>
        /\ Active /\ pass = "claims" /\ UNCHANGED <<pass, nodes>> /\ answer'.items = Tail(answer.items)
    BY <1>5, HeadTail DEF MergeClaim, ReplayInv, TwoTypeOK, Active
  <2>2. Elements(answer.items) = {c} \cup Elements(answer'.items)
    BY <2>1, HeadTailElements
  <2>3. seen' = seen \cup {Key(c)}
    BY <1>5 DEF MergeClaim
  <2>4. ~Answer /\ ~Run
    BY <1>5 DEF MergeClaim, Answer, Run
  <2>5. {Key(d) : d \in Elements(answer.items)} = {Key(c)} \cup {Key(d) : d \in Elements(answer'.items)}
    BY <2>2
  <2> QED BY <1>3, <2>1, <2>3, <2>4, <2>5 DEF ReplayInv, SummaryInv, Left
<1>6. CASE NextRound \/ NextChunk \/ NextPass
  <2>1. /\ UNCHANGED <<nodes, seen, answer>> /\ Active /\ answer.items = <<>> /\ ~Answer /\ ~Run
    BY <1>6 DEF NextRound, NextChunk, NextPass, Merged, Active, Answer, Run
  <2>2. Elements(<<>>) = {}
    BY DEF Elements
  <2>3. Left("nodes") = {} /\ Left("claims") = {} /\ Left("nodes")' = {} /\ Left("claims")' = {}
    BY <2>1, <2>2 DEF Left
  <2> QED BY <1>3, <2>1, <2>3 DEF ReplayInv, SummaryInv
<1>7. CASE Sigterm \/ Fail \/ Cancel \/ Refuse \/ Dispatch \/ Finish \/ UNCHANGED twoVars
  <2>1. /\ UNCHANGED <<pass, nodes, seen, answer, asked, cache>>
        /\ Active' => Active
    BY <1>7 DEF Sigterm, Fail, Cancel, Refuse, Dispatch, Finish, twoVars, state, Active
  <2>2. Left("nodes")' = Left("nodes") /\ Left("claims")' = Left("claims")
    BY <2>1 DEF Left
  <2>3. Got("nodes")' = Got("nodes") /\ Got("claims")' = Got("claims")
    BY <2>1 DEF Got
  <2> QED BY <2>1, <2>2, <2>3 DEF ReplayInv, SummaryInv
<1> QED BY <1>1, <1>2, <1>4, <1>5, <1>6, <1>7 DEF TwoNext, Working

\* At the start nothing was asked, and the course is its beginning.
LEMMA ReplayInitial == TwoInit => ReplayInv
<1> SUFFICES ASSUME TwoInit PROVE ReplayInv
  OBVIOUS
<1>1. TwoTypeOK
  BY InitTwo
<1>2. cache = <<>> /\ asked = <<>> /\ ~Active
  BY DEF TwoInit, Active
<1>3. UniqueInv /\ AskedInv /\ OrderInv /\ SummaryInv
  BY <1>2 DEF UniqueInv, AskedInv, OrderInv, SummaryInv
<1>4. Beginning.taken = 0
  BY DEF Beginning
<1>5. Course(cache, {Beginning}, Beginning)
  BY <1>2, <1>4 DEF Course
<1>6. CourseInv
  BY <1>2, <1>5 DEF CourseInv
<1> QED BY <1>1, <1>3, <1>6 DEF ReplayInv

\* Every step keeps the whole invariant.
LEMMA ReplayStep == ReplayInv /\ [TwoNext]_twoVars => ReplayInv'
<1>1. ReplayInv => TwoTypeOK
  BY DEF ReplayInv
<1> QED BY <1>1, TypeStep, CourseStep, AskedStep, OrderStep, SummaryStep DEF ReplayInv

\* So it holds at every moment of any sequence of runs.
LEMMA ReplayAlways == TwoSpec => []ReplayInv
<1> QED BY ReplayInitial, ReplayStep, PTL DEF TwoSpec

\* The next call of a resumed run is answered by the next kept answer and by no other.
LEMMA ReplayGivesReplays == ReplayInv => ResumeReplays
<1> SUFFICES ASSUME ReplayInv PROVE ResumeReplays
  OBVIOUS
<1>1. Len(asked) <= Len(cache) /\ \A i \in DOMAIN asked : asked[i] = cache[i].prompt
  BY DEF ReplayInv, AskedInv
<1>2. ASSUME pc = "calling", Len(asked) < Len(cache) PROVE Cached = {Len(asked) + 1}
  <2>1. PICK R, last : Course(cache, R, last) /\ Snap \in R
    BY <1>2 DEF ReplayInv, CourseInv, Active
  <2>2. Snap = last => Len(asked) = Len(cache)
    BY <1>2, <2>1, NextKept
  <2>3. Len(asked) \in Nat /\ Len(cache) \in Nat
    BY DEF ReplayInv, AskedInv, TwoTypeOK
  <2>4. Snap # last
    BY <1>2, <2>2, <2>3
  <2> QED BY <1>2, <2>1, <2>4, NextKept
<1> QED BY <1>1, <1>2 DEF ResumeReplays

\* A run that is started again after a cancel, a kill or a failure asks what was asked before,
\* in the same order, and is given the kept answers; for any record, any model and any
\* interruptions.
THEOREM ResumesAlwaysReplay == TwoSpec => []ResumeReplays
<1> QED BY ReplayAlways, ReplayGivesReplays, PTL

--------------------------------------------------------------------------------
(* The extraction, with its runs, is one conversation. *)

Concluded == IF pc = "done" THEN [names |-> Elements(nodes), keys |-> seen] ELSE NoAnswer

\* A run concludes with all that the conversation amounts to.
LEMMA FinishSummarises ==
    ASSUME ReplayInv, Finish
    PROVE  SummaryOf(cache) = [names |-> Elements(nodes), keys |-> seen]
<1>1. pc = "merge" /\ answer.items = <<>> /\ ChunkDone /\ chunk = Chunks /\ pass = "claims"
  BY DEF Finish, Merged
<1>2. PICK R, last : Course(cache, R, last) /\ Snap \in R
  BY <1>1 DEF ReplayInv, CourseInv, Active
<1>3. ~GoesOn(cache, Snap)
  BY <1>1, CountsAssumption DEF GoesOn, Snap, Exhausted, ChunkDone
<1>4. Len(asked) = Len(cache)
  BY <1>2, <1>3 DEF Course, Snap
<1>5. DOMAIN asked = DOMAIN cache /\ \A i \in DOMAIN asked : asked[i] = cache[i].prompt
  BY <1>4 DEF ReplayInv, AskedInv, TwoTypeOK
<1>6. ASSUME NEW p PROVE Got(p) = ItemsOf(cache, p)
  BY <1>5 DEF Got, ItemsOf
<1>7. Left("nodes") = {} /\ Left("claims") = {}
  BY <1>1 DEF Left, Elements
<1>8. Elements(nodes) = Got("nodes") /\ seen = {Key(c) : c \in Got("claims")}
  BY <1>1, <1>7 DEF ReplayInv, SummaryInv, Active
<1> QED BY <1>6, <1>8 DEF SummaryOf

\* An answer that is kept stays where it is.
LEMMA AppendKeeps ==
    ASSUME NEW S, NEW s \in Seq(S), NEW x \in S
    PROVE  Len(Append(s, x)) = Len(s) + 1 /\ SubSeq(Append(s, x), 1, Len(s)) = s
  OBVIOUS

\* An answer the cache did not have is one more of the conversation, the end of a run
\* concludes it, and nothing else touches either.
LEMMA ConversationStep ==
    ReplayInv /\ [TwoNext]_twoVars => [Talk!TalkNext]_<<cache, Concluded>>
<1> SUFFICES ASSUME ReplayInv, [TwoNext]_twoVars PROVE [Talk!TalkNext]_<<cache, Concluded>>
  OBVIOUS
<1>1. CASE Answer
  <2>1. pc = "calling" /\ pc' = "merge"
    BY <1>1 DEF Answer
  <2>2. Concluded = NoAnswer /\ Concluded' = NoAnswer
    BY <2>1 DEF Concluded
  <2>3. CASE cache' = cache
    BY <2>2, <2>3
  <2>4. CASE cache' # cache
    <3>1. cache' = Append(cache, [prompt |-> Prompt, answer |-> answer'])
      BY <1>1, <2>4 DEF Answer
    <3>2. PICK K : cache \in Seq(K) /\ cache' \in Seq(K)
      BY TypeStep DEF ReplayInv, TwoTypeOK
    <3>3. Len(cache') = Len(cache) + 1 /\ SubSeq(cache', 1, Len(cache)) = cache
      BY <3>1, <3>2, AppendKeeps
    <3> QED BY <2>2, <3>3 DEF Talk!TalkNext, Talk!Ask, Concluded
  <2> QED BY <2>3, <2>4
<1>2. CASE Finish
  <2>1. pc = "merge" /\ pc' = "done" /\ UNCHANGED <<nodes, seen, cache>>
    BY <1>2 DEF Finish, Merged, state
  <2>2. Concluded = NoAnswer /\ Concluded' = SummaryOf(cache)
    BY <1>2, <2>1, FinishSummarises DEF Concluded
  <2> QED BY <2>1, <2>2 DEF Talk!TalkNext, Talk!Conclude, Concluded
<1>3. CASE ~Answer /\ ~Finish
  <2>1. cache' = cache /\ Concluded' = Concluded
    BY <1>3 DEF TwoNext, Working, Run, Start, Sigterm, Fail, Cancel, Refuse, Dispatch, MergeNode,
                MergeClaim, NextRound, NextChunk, NextPass, Merged, twoVars, state, Concluded
  <2> QED BY <2>1
<1> QED BY <1>1, <1>2, <1>3

\* However it is interrupted and resumed, an extraction is one conversation: an answer is
\* obtained once and kept, and the result has what all of the answers name and claim.
THEOREM OneConversation == TwoSpec => ImplementsConversation
<1>1. TwoInit => Talk!TalkInit
  BY DEF TwoInit, Talk!TalkInit
<1>2. ReplayInv /\ [TwoNext]_twoVars => [Talk!TalkNext]_<<cache, Concluded>>
  BY ConversationStep
<1>3. TwoSpec => Talk!TalkSpec
  BY <1>1, <1>2, ReplayAlways, PTL DEF TwoSpec, Talk!TalkSpec, Concluded
<1> QED BY <1>3 DEF ImplementsConversation

================================================================================
