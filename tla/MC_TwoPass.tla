------------------------------- MODULE MC_TwoPass ------------------------------
(***************************************************************************)
(* Two chunks and a model that may repeat itself, say it is complete too   *)
(* early or never, and name the source of what it first gave unattributed. *)
(***************************************************************************)
EXTENDS TwoPass

CONSTANTS fravor, day, nimitz, tictac, dutyOfficer

Claim(o, r) == [proposition |-> tictac, origin |-> o, root |-> r]
Bare  == Claim("none", "")
Named == Claim("named", fravor)
Anon  == Claim("anonymous", dutyOfficer)

MCClaims == {Bare, Named, Anon}

Says(items, complete) == [items |-> items, complete |-> complete]
MCNodeAnswers  == {Says(<<>>, TRUE), Says(<<fravor, day>>, FALSE),
                   Says(<<day, nimitz>>, TRUE), Says(<<nimitz, nimitz>>, FALSE)}
MCClaimAnswers == {Says(<<>>, TRUE), Says(<<Bare, Anon>>, FALSE),
                   Says(<<Bare, Named>>, FALSE), Says(<<Anon>>, TRUE)}
================================================================================
