\* s6lock, two ids and one file that others lock too
CONSTANTS
  f = f
  Ids = {0, 1}
  Files = {f}
  Exs = {TRUE, FALSE}
  Limits = {TRUE}
  GivesUp = FALSE
  MaxAcquire = 2
  MaxFails = 1
  MaxForeign = 1
  MaxKills = 1
SPECIFICATION FairSpec
INVARIANT InStep
PROPERTY Answered
PROPERTY Freed
CHECK_DEADLOCK FALSE
