\* runsv without a log service, every command including k
CONSTANTS
  p1 = p1
  p2 = p2
  p3 = p3
  p4 = p4
  NoPid = NoPid
  Pids = {p1, p2, p3, p4}
  HasLog = FALSE
  MainCmds <- AllCmds
  LogCmds = {}
  Refrain <- Never
  FinishFile <- Both
  BootWants = {"up", "down"}
  MaxCmds = 4
SPECIFICATION Spec
SYMMETRY PidPermutations
INVARIANT PidsAreChildren
INVARIANT NoSilentOrphan
CHECK_DEADLOCK FALSE
