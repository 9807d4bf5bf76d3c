CONSTANTS
 Caller = {c1, c2}
 MaxCommands = 3
 MaxVisionStops = 1
 Client = {c1, c2}
 MaxCalls = 3
 MaxConnections = 2
 MaxEvents = 2
 MaxProxyStops = 1
 Button = {"a", "sr", "zl"}
 Value <- Values
 Dump <- Dumps
SPECIFICATION MCSpec
INVARIANTS OwnAnswer EventsMapped ReportIsTrue
PROPERTY CallsEnd
CHECK_DEADLOCK FALSE
