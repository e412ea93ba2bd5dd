SPECIFICATION Spec
CONSTANTS
  v1 = v1  v2 = v2  s1 = s1  s2 = s2  p1 = p1  p2 = p2
  Slots = {v1}
  Sweepers = {s1}
  Snapshots = {}
  NoVm = NoVm
  NoSnap = NoSnap
  Absent = Absent
  Actions = {}
  MaxOps = 1
PROPERTIES RemovedUnderLease
CHECK_DEADLOCK FALSE
