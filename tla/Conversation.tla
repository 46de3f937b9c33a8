------------------------------ MODULE Conversation -----------------------------
(***************************************************************************)
(* What a two-pass extraction promises, however often it is cancelled,     *)
(* killed and resumed: there is one conversation with the model, in which  *)
(* every answer is obtained once and kept; and there is one result, made   *)
(* of everything the answers of the whole conversation name and claim.     *)
(***************************************************************************)
EXTENDS Naturals, Sequences

CONSTANTS
    Summary(_),     \* what a conversation amounts to
    NoResult        \* there is no result yet

VARIABLES
    talk,       \* the conversation
    result      \* what came out of it

TalkInit == talk = <<>> /\ result = NoResult

\* One more answer is obtained.
Ask ==
    /\ result = NoResult
    /\ Len(talk') = Len(talk) + 1
    /\ SubSeq(talk', 1, Len(talk)) = talk
    /\ UNCHANGED result

Conclude ==
    /\ result = NoResult
    /\ result' = Summary(talk)
    /\ UNCHANGED talk

TalkNext == Ask \/ Conclude

TalkSpec == TalkInit /\ [][TalkNext]_<<talk, result>>
================================================================================
