CONSTANTS
  f1 = f1
  short = short
  c1 = c1
  c2 = c2
  Figure = {f1}
  Size <- Sizes
  Blank = Blank
  Caller = {c1}
  MaxSessions = 2
  MaxRequests = 0
  MaxLoads = 1
SPECIFICATION FairSpec
PROPERTY ReportsResume
