-------------------------- MODULE MC_ConfigRegistry ----------------------------
(* Three processes, two sharing a pid, each registering two configurations. *)
EXTENDS ConfigRegistry, TLC

CONSTANTS p1, p2, p3, sonnet, opus, luna, pidA, pidB

MCWants == (p1 :> <<sonnet, opus>>) @@ (p2 :> <<opus, luna>>) @@ (p3 :> <<luna>>)
MCPid   == (p1 :> pidA) @@ (p2 :> pidA) @@ (p3 :> pidB)
================================================================================
