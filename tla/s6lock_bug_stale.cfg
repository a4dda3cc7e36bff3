\* s6lock, two ids and one file that others lock too
CONSTANTS
  f = f
  Ids = {0, 1}
  Files = {f}
  Exs = {TRUE, FALSE}
  Limits = {TRUE}
  GivesUp = TRUE
  MaxAcquire = 2
  MaxFails = 1
  MaxForeign = 1
  MaxKills = 1
SPECIFICATION Spec
INVARIANT HeldIsLocked

CHECK_DEADLOCK FALSE
