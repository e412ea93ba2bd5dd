SPECIFICATION Spec
CONSTANTS
  v1 = v1  v2 = v2  s1 = s1  s2 = s2  p1 = p1  p2 = p2
  Slots = {v1}
  Sweepers = {s1}
  Snapshots = {p1}
  NoVm = NoVm
  NoSnap = NoSnap
  Absent = Absent
  Actions = {"snapshot"}
  MaxOps = 2
SYMMETRY Symmetric
PROPERTIES DeleteDurable
CHECK_DEADLOCK FALSE
