---------------------------- MODULE MCTournament ----------------------------
(* Model checking of TournamentRunner: two semifinals and a final.          *)
EXTENDS TournamentRunner

FinalOfThree == 1..3

FinalNeeds == [m \in 1..3 |-> IF m = 3 THEN {1, 2} ELSE {}]

=============================================================================
