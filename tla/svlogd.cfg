\* svlogd with a processor, killed once, and every signal
CONSTANTS
  N = 8
  NL <- Newlines
  LineMax = 2
  BufLen = 3
  SizeMax = 4
  NMax = 3
  NMin = 0
  Skip = {6}
  Processor = TRUE
  Sigs = {"TERM", "ALRM", "HUP", "time"}
  MaxSent = 1
  MaxStarts = 2
  MaxFailed = 1
  MaxFull = 1
SPECIFICATION FairSpec
INVARIANT Kept
INVARIANT Bounded
PROPERTY Processed
CHECK_DEADLOCK FALSE
