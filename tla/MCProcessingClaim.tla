------------------------ MODULE MCProcessingClaim ------------------------
(* Small instances of ProcessingClaim for TLC.                             *)
EXTENDS ProcessingClaim, TLC

\* Turns, and likewise the holders of each other kind, are interchangeable.
Symmetry ==
  Permutations(Turns) \cup Permutations(Wakes)

============================================================================
