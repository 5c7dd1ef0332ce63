SPECIFICATION HSpec
CONSTANTS
  r1 = r1
  r2 = r2
  Reqs <- MCReqs
  MaxRequests = 1
  Threshold = 1
  Interval = 1
  Timeout = 1
  MaxTime = 2
  RetryMax = 2
  RetryWaitMin = 1
  RetryWaitMax = 3
  RetryAfters <- Afters
  Half = 4
INVARIANTS
  HttpTypeOK
  RetriesSpaced
  TrialLoad
PROPERTIES
  OneUsePerCall
  GoroutineEnds
  HalfOpenResolves
CHECK_DEADLOCK FALSE
