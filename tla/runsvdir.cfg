\* every fault, dangling links and signals; what stays has a runsv
CONSTANTS
  n1 = n1
  n2 = n2
  d1 = d1
  d2 = d2
  d3 = d3
  p1 = p1
  p2 = p2
  p3 = p3
  p4 = p4
  Absent = Absent
  Dangling = Dangling
  NoRunsv = NoRunsv
  Names = {n1, n2}
  Inodes = {d1, d2}
  Kinds = {d1, d2, Absent, Dangling}
  RunsvPids = {p1, p2, p3}
  MaxServices = 2
  Faults = {"stat", "opendir", "readdir", "fork"}
  MaxFaults = 1
  MaxChanges = 2
  Ends = {"HUP"}
SPECIFICATION DirFairSpec
INVARIANT SlotsAreServices
PROPERTY PresentRuns
PROPERTY RemovedEnds
CHECK_DEADLOCK FALSE
