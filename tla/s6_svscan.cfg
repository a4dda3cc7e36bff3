\* s6-svscan, one directory with a log and one without
CONSTANTS
  d1 = d1
  d2 = d2
  Dirs = {d1, d2}
  Logged = {d1}
  Pids = {1, 2, 3, 4}
  Pipes = {0, 1, 2}
  MaxServices = 2
  Rescans = TRUE
  Ctl = {"n", "t"}
  Sigs = {"ALRM"}
  MaxSent = 1
  MaxDeaths = 1
  MaxChanges = 2
  MaxFails = 1
SPECIFICATION FairSpec
INVARIANT OnePerDirectory
INVARIANT SamePipe
PROPERTY NukeSpares
PROPERTY Restarted
CHECK_DEADLOCK FALSE
