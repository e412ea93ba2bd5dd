SPECIFICATION Spec
CONSTANTS
  v1 = v1  v2 = v2  s1 = s1  s2 = s2  p1 = p1  p2 = p2
  Slots = {v1}
  Sweepers = {s1}
  Snapshots = {p1}
  NoVm = NoVm
  NoSnap = NoSnap
  Absent = Absent
  Actions = {"resize", "snapshot", "restore"}
  MaxOps = 4
SYMMETRY Symmetric
INVARIANTS IdleExplained SnapshotLeased ReadySnapshotStored
PROPERTIES RestoreRecorded
CHECK_DEADLOCK FALSE
