------------------------------- MODULE WholeRecord -----------------------------
(***************************************************************************)
(* workspace/digester/extract.py: the passes that hold the whole record in *)
(* a cached prefix and vary the task: extract_cast and extract_claims_v3,  *)
(* which extract_v3 runs one after the other, and extract_accounts.  Each  *)
(* asks for what is missing until the model says there is nothing, or      *)
(* finds too little that is new.  A claim cites a source by its id, and    *)
(* gets the chain the cast gave for that id.                               *)
(***************************************************************************)
EXTENDS Naturals, SequencesExt, FiniteSetsExt

CONSTANTS
    Names,          \* names of nodes, and titles of accounts
    Sources,        \* ids of sources
    Chains,         \* the descriptions of a source
    Contents,       \* what claims say
    RoundsMax,      \* ITERATION_MAX
    ClaimsMinNew,   \* ITERATION_MIN_NEW
    MaxAnswer       \* bound: the claims of an answer

ASSUME WholeRecordAssumption ==
    RoundsMax \in Nat \ {0} /\ {ClaimsMinNew, MaxAnswer} \subseteq Nat

VARIABLES
    phase,          \* the pass that is under way
    round,          \* the calls it has made
    cast,           \* the names found and, of each source found, its description
    cited,          \* the claims, in the order they came
    answer,         \* what is left of the answer that is being gone through
    fresh,          \* how many of it were new
    emitted         \* all the model has ever emitted, in this run

recordVars == <<phase, round, cast, cited, answer, fresh, emitted>>

NoChain == "no chain"
NoCast == [names |-> {}, sources |-> <<>>]

RecordInit ==
    /\ phase \in {"cast", "accounts"} /\ round = 0 /\ cast = NoCast /\ cited = <<>>
    /\ answer = <<>> /\ fresh = 0
    /\ emitted = [names |-> {}, sources |-> {}, claims |-> {}, complete |-> FALSE]

Go(next) == phase' = next /\ round' = 0
Again == UNCHANGED phase /\ round' = round + 1
Ceiling == round + 1 = RoundsMax

\* A source keeps the description it was first given.
Described(told) ==
    [s \in DOMAIN cast.sources \cup DOMAIN told |->
        IF s \in DOMAIN cast.sources THEN cast.sources[s] ELSE told[s]]

\* A round of the cast, in which the model may repeat what it was told not to, and
\* describe a source it has described before.
CastRound ==
    /\ phase = "cast"
    /\ \E names \in SUBSET Names, ids \in SUBSET Sources, complete \in BOOLEAN :
       \E told \in [ids -> Chains] :
           LET new == names \ cast.names # {} \/ ids \ DOMAIN cast.sources # {}
           IN  /\ cast' = [names |-> cast.names \cup names, sources |-> Described(told)]
               /\ emitted' = [emitted EXCEPT !.names = @ \cup names, !.complete = complete,
                                  !.sources = @ \cup {<<s, told[s]>> : s \in ids}]
               /\ IF complete \/ ~new \/ Ceiling THEN Go("claims") ELSE Again
    /\ UNCHANGED <<cited, answer, fresh>>

AccountsRound ==
    /\ phase = "accounts"
    /\ \E names \in SUBSET Names, complete \in BOOLEAN :
           /\ cast' = [cast EXCEPT !.names = @ \cup names]
           /\ emitted' = [emitted EXCEPT !.names = @ \cup names, !.complete = complete]
           /\ IF complete \/ names \subseteq cast.names \/ Ceiling THEN Go("end") ELSE Again
    /\ UNCHANGED <<cited, answer, fresh>>

\* The ids the schema allows; without sources, any.
Citable == IF DOMAIN cast.sources = {} THEN Sources ELSE DOMAIN cast.sources

Claim(content, source, chain) == [content |-> content, source |-> source, chain |-> chain]
KeyOf(c) == <<c.content, c.source>>

\* MUTANT: what was extracted before is not looked for.
NothingSeen == {}

\* A claim is known by its content and its source.
Seen == {KeyOf(c) : c \in ToSet(cited)}

\* Claims as the model gives them: they cite a source, and have no chain of their own yet.
Answers == BoundedSeq({Claim(c, s, NoChain) : c \in Contents, s \in Citable}, MaxAnswer)

\* A call for claims, and for those that were not given before.
AskForClaims ==
    /\ phase = "claims" /\ phase' = "merge" /\ fresh' = 0
    /\ \E given \in Answers, complete \in BOOLEAN :
           /\ answer' = given
           /\ emitted' = [emitted EXCEPT !.claims = @ \cup {KeyOf(c) : c \in ToSet(given)},
                                         !.complete = complete]
    /\ UNCHANGED <<round, cast, cited>>

\* The loop over an answer: a claim is added unless it was seen, in this answer or before.
TakeClaim ==
    /\ phase = "merge" /\ answer # <<>> /\ answer' = Tail(answer)
    /\ IF KeyOf(Head(answer)) \in Seen THEN UNCHANGED <<cited, fresh>>
       ELSE cited' = Append(cited, Head(answer)) /\ fresh' = fresh + 1
    /\ UNCHANGED <<phase, round, cast, emitted>>

EndClaimsRound ==
    /\ phase = "merge" /\ answer = <<>>
    /\ IF emitted.complete \/ fresh < ClaimsMinNew \/ Ceiling THEN Go("expand")
       ELSE phase' = "claims" /\ round' = round + 1
    /\ UNCHANGED <<cast, cited, answer, fresh, emitted>>

\* expand_source_ids
ExpandSourceIds ==
    /\ phase = "expand" /\ Go("end")
    /\ cited' = [i \in DOMAIN cited |->
           [cited[i] EXCEPT !.chain = IF cited[i].source \in DOMAIN cast.sources
                                      THEN cast.sources[cited[i].source] ELSE NoChain]]
    /\ UNCHANGED <<cast, answer, fresh, emitted>>

RecordNext ==
    CastRound \/ AccountsRound \/ AskForClaims \/ TakeClaim \/ EndClaimsRound \/ ExpandSourceIds
RecordSpec == RecordInit /\ [][RecordNext]_recordVars

--------------------------------------------------------------------------------
(* Properties. *)

\* Whatever the model repeats, and however it describes a source again, each claim it made
\* is there once, each name and each source is kept, and "every claim citing a source gets
\* byte-identical provenance": the chain its id was first given.
OneChainPerSource ==
    /\ cast.names = emitted.names
    /\ answer = <<>> => {KeyOf(c) : c \in ToSet(cited)} = emitted.claims
    /\ \A i, j \in DOMAIN cited : KeyOf(cited[i]) = KeyOf(cited[j]) => i = j
    /\ \A s \in DOMAIN cast.sources : <<s, cast.sources[s]>> \in emitted.sources
    /\ phase = "end" => \A i \in DOMAIN cited :
           IF \E d \in Chains : <<cited[i].source, d>> \in emitted.sources
           THEN /\ <<cited[i].source, cited[i].chain>> \in emitted.sources
                /\ \A j \in DOMAIN cited : cited[i].source = cited[j].source
                       => cited[i].chain = cited[j].chain
           ELSE cited[i].chain = NoChain
================================================================================
