\* s6-supervise and one s6-svwait
CONSTANTS
  p1 = p1
  p2 = p2
  NoPid = NoPid
  Wstat = Wstat
  Pids = {p1, p2}
  Cmds = {"p", "o", "d", "u"}
  Signals = {"TERM", "HUP"}
  Faults = {"fork", "exec"}
  MaxFaults = 1
  MaxCmds = 2
  MaxEvents = 1
  BootWants = {"up", "down"}
  WantUps <- Both
  Repeats <- Yes
SPECIFICATION WaitFairSpec
INVARIANT ChildTrue
INVARIANT WaitTrue
PROPERTY ImplementsLifecycle
PROPERTY UpRuns
PROPERTY WaitEnds
CHECK_DEADLOCK FALSE
