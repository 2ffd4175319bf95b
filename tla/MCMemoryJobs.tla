--------------------------- MODULE MCMemoryJobs ---------------------------
(* Instances of MemoryJobs for TLC.                                       *)
EXTENDS MemoryJobs, TLC

CONSTANTS j1, j2, j3

\* Two rows for one page; a third, of another lane, for something else.
PageRows == [j \in Jobs |-> IF j = j3 THEN "other" ELSE "page"]
PageLanes == [j \in Jobs |-> IF j = j3 THEN "fast" ELSE "embed"]
OwnRows == [j \in Jobs |-> j]
Budgets == [l \in Lanes |-> IF l = "embed" THEN 2 ELSE 1]

Symmetry == Permutations(Workers)
============================================================================
