CONSTANTS
  Match <- FinalOfThree
  Needs <- FinalNeeds
  Commands = {"RESUME", "PAUSE"}
  MaxCommands = 3
  Faults = {}
SPECIFICATION FairSpec
PROPERTY PausedResumes
\* The user may leave the tournament alone.
CHECK_DEADLOCK FALSE
