CONSTANTS
  f1 = f1
  short = short
  c1 = c1
  c2 = c2
  Figure = {f1, short}
  Size <- Sizes
  Blank = Blank
  Caller = {c1, c2}
  MaxSessions = 2
  MaxRequests = 3
  MaxLoads = 2
SPECIFICATION FairSpec
INVARIANTS ReadIsWhole AgainIsTheSame UploadIsNew
PROPERTY ReadCompletes
