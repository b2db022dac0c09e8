SPECIFICATION FairSpec
CONSTANTS
  p1 = p1  p2 = p2  i1 = i1  i2 = i2
  None = None
  Processes = {p1, p2}
  Inodes = {i1, i2}
  MaxCrashes = 1
  MaxFaults = 2
INVARIANTS OnlyWindowsBreakExclusion
PROPERTIES DeadLockIsReclaimed
