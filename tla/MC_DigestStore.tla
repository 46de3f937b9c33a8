---------------------------- MODULE MC_DigestStore -----------------------------
(***************************************************************************)
(* Runs on one digests root: a record (r1), its re-ingest under the same   *)
(* model and prompts, which redoes the variant (r2), the record again with *)
(* an opencode model (r3), with -o (r4), as a labelled repeat (r5) and     *)
(* under overridden prompts (r6).                                          *)
(***************************************************************************)
EXTENDS DigestStore, TLC

CONSTANTS r1, r2, r3, r4, r5, r6, stewart, stewartV2, sonnet, grok,
          registryPrompts, tunedPrompts, repeat, c1, c2, c3

A(n, m, c) == [name |-> n, model |-> m, prompts |-> registryPrompts, label |-> NoLabel,
               variantOnly |-> FALSE, config |-> c, to |-> "root"]
AllJobs ==
    (r1 :> A(stewart, sonnet, c1)) @@ (r2 :> A(stewartV2, sonnet, c2))
    @@ (r3 :> A(stewart, grok, c3))
    @@ (r4 :> [A(stewart, sonnet, c1) EXCEPT !.to = "output"])
    @@ (r5 :> [A(stewart, sonnet, c1) EXCEPT !.label = repeat])
    @@ (r6 :> [A(stewart, sonnet, c2) EXCEPT !.prompts = tunedPrompts])
MCJob == [r \in Runs |-> AllJobs[r]]
MCDeVersion == (stewart :> stewart) @@ (stewartV2 :> stewart)
MCSafe == (sonnet :> sonnet) @@ (grok :> grok) @@ (repeat :> repeat)
MCSha8 == (registryPrompts :> registryPrompts) @@ (tunedPrompts :> tunedPrompts)
MCProduction == <<c1>>

\* Scenarios: runs that meet on a record, a repeat and an experiment beside the run they
\* are compared with, and the two destinations.
MCParticipants == {{r1, r2, r3}, {r1, r5, r6}, {r1, r4}}
MCStoreInit == StoreInit /\ Runs \ stopped \in {Runs \cap S : S \in MCParticipants}
MCStoreSpec ==
    MCStoreInit /\ [][StoreNext]_storeVars /\ \A r \in Runs : WF_storeVars(RunStep(r))
================================================================================
