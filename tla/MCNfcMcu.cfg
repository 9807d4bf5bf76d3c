CONSTANTS
  Packets = 2
  MaxWrites = 2
  MaxTags = 2
  MaxTasks = 2
  QueueLimit = 2
  MaxQueue = 3
SPECIFICATION Spec
INVARIANTS WholeWrites DoneIsWritten BackedUp
