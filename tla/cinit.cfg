\* cinit: every tree of three services, and two clients where there is none
CONSTANTS
  r = r
  a = a
  b = b
  c1 = c1
  c2 = c2
  NoPid = NoPid
  Svcs = {r, a, b}
  Root = r
  Names <- LinkNames
  Confs <- AllConfs
  Askers <- RootAskers
  Pids = {1, 2, 3}
  MaxFails = 1
  MaxStarts = 1
  MaxHalts = 1
  Clients = {c1, c2}
  Cmds = {"PID", "DISABLE"}
  QueueLen = 1
  MaxQsns = 2
  MaxKills = 1
SPECIFICATION FairSpec
INVARIANT TreeIsMirrored
INVARIANT NeedsFirst
INVARIANT OwnAnswer
PROPERTY AllStarted
PROPERTY Answered
CHECK_DEADLOCK FALSE
