------------------------------ MODULE MC_ExtractRun ----------------------------
(* Two opencode routes, a Claude plan and a metered route, two calls to an attempt. *)
EXTENDS ExtractRun
CONSTANTS kimi, glm, sonnet, metered
================================================================================
