\* runsv with a log service, without k, p and c
CONSTANTS
  p1 = p1
  p2 = p2
  p3 = p3
  p4 = p4
  NoPid = NoPid
  Pids = {p1, p2, p3}
  HasLog = TRUE
  MainCmds = {"u", "d", "o", "x", "t"}
  LogCmds = {"u", "d"}
  Refrain <- Both
  FinishFile <- Both
  BootWants = {"up", "down"}
  MaxCmds = 3
SPECIFICATION FairSpec
INVARIANT OneInstance
INVARIANT ExitIsClean
INVARIANT NoLostWakeup
INVARIANT NoBrokenPipe
PROPERTY ImplementsLifecycle
PROPERTY UpRuns
PROPERTY ExitCompletes
CHECK_DEADLOCK FALSE
