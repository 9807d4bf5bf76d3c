CONSTANTS
  Match <- FinalOfThree
  Needs <- FinalNeeds
  Commands = {"RESUME", "PAUSE", "RESTART"}
  MaxCommands = 3
  Faults = {"http", "skip", "death"}
SPECIFICATION FairSpec
INVARIANTS OneAtATime NotReplayed ResultKept NoMoreMatches
PROPERTY TournamentEnds
\* The user may leave the tournament alone.
CHECK_DEADLOCK FALSE
