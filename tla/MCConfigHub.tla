----------------------------- MODULE MCConfigHub -----------------------------
(* ConfigHub for TLC: symmetric keys, contents, listeners and writers.     *)
EXTENDS ConfigHub, TLC

Symmetry ==
    Permutations(Keys) \cup Permutations(Contents)
    \cup Permutations(Listeners) \cup Permutations(Writers)
=============================================================================
