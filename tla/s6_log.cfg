\* s6-log with a processor, killed once, and calls that fail or write a part
CONSTANTS
  N = 6
  NL <- Newlines
  Skip = {4}
  InSize = 3
  S = 3
  L = 1
  NArch = 2
  MaxDir = 0
  Processors = {TRUE, FALSE}
  Block = FALSE
  Protect = FALSE
  Sigs = {"TERM", "ALRM"}
  MaxSent = 1
  MaxStarts = 2
  MaxFailed = 1
  MaxFails = 2
SPECIFICATION FairSpec
INVARIANT Kept
PROPERTY Drained
CHECK_DEADLOCK FALSE
