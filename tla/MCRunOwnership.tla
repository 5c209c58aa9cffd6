--------------------------- MODULE MCRunOwnership --------------------------
(* Small instances of RunOwnership for TLC. *)
EXTENDS RunOwnership, TLC

Symmetric == Permutations(Turns) \cup Permutations(Runs)
============================================================================
