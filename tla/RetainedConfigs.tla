---------------------------- MODULE RetainedConfigs ----------------------------
(***************************************************************************)
(* What extraction_config_registry.register promises its callers: the      *)
(* registry is a set of configurations that only ever grows, one           *)
(* configuration at a time, and a call that has returned normally has left *)
(* its configuration in the set for good.  A call may also do nothing at   *)
(* all (it raised, or its process died).                                   *)
(***************************************************************************)
CONSTANT Configs

VARIABLES
    kept,       \* the configurations the registry resolves
    promised    \* the configurations some call returned normally for

RetainInit ==
    /\ kept \in SUBSET Configs
    /\ promised = {}

\* A configuration enters the registry.
Keep(c) ==
    /\ kept' = kept \cup {c}
    /\ UNCHANGED promised

\* register() returns the fingerprint of a configuration the registry holds.
Promise(c) ==
    /\ c \in kept
    /\ promised' = promised \cup {c}
    /\ UNCHANGED kept

RetainNext == \E c \in Configs : Keep(c) \/ Promise(c)

RetainSpec == RetainInit /\ [][RetainNext]_<<kept, promised>>
================================================================================
