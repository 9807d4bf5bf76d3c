CONSTANTS
  Peer = {p1}
  p1 = p1
  NoPeer = NoPeer
  MaxCid = 3
  BootAttempts = 1
  AutoAttempts = 2
  UserAttempts = 2
  AuthLimit = 2
  HostCommands = {"STOP_ADVERTISING", "RECONNECT"}
  Restarts = FALSE
  Orderly = TRUE
SPECIFICATION FairSpec
INVARIANT SessionHasNextEvent
PROPERTY SessionsEndInService
