------------------------------ MODULE MC_Attribution ---------------------------
(* Two versions and two texts of a prompt, and records with two bodies that may be closed. *)
EXTENDS Attribution, TLC
CONSTANTS b1, b2, open, closed, v1, v2, t1, t2, s1, s2

\* Which text or body it is makes no difference.
Interchangeable == Permutations({b1, b2}) \cup Permutations({t1, t2}) \cup Permutations({v1, v2})
================================================================================
