CONSTANTS
  Peer = {p1}
  p1 = p1
  NoPeer = NoPeer
  MaxCid = 2
  BootAttempts = 1
  AutoAttempts = 2
  UserAttempts = 3
  AuthLimit = 2
  HostCommands = {"START_ADVERTISING", "STOP_ADVERTISING", "DISCONNECT", "RECONNECT", "FORGET_BONDING"}
  Restarts = TRUE
  Orderly = FALSE
SPECIFICATION Spec
INVARIANTS TypeOK RetryWithinBudget ReconnectingIsManaged RadioMatchesState ReadyIsAnnounced
PROPERTIES RetriesAsPromised OnlyHostAdvertisesInSession
