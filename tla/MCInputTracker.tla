--------------------------- MODULE MCInputTracker ---------------------------
(* Model checking of InputTracker, with two buttons and both sticks.       *)
EXTENDS InputTracker, TLC

CONSTANTS a, b    \* buttons

Symmetry == Permutations(Button)

=============================================================================
