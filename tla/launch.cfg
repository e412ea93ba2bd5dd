SPECIFICATION Spec
CONSTANTS
  v1 = v1  v2 = v2  s1 = s1  s2 = s2  p1 = p1  p2 = p2
  Slots = {v1, v2}
  Sweepers = {s1, s2}
  Snapshots = {}
  NoVm = NoVm
  NoSnap = NoSnap
  Absent = Absent
  Actions = {"start", "stop"}
  MaxOps = 3
SYMMETRY Symmetric
INVARIANTS TypeOK VmAccountedUnlessUnread OneReconciler LeaseOwner IdleExplained
PROPERTIES DeleteDurable RemovedUnlessOvertaken
CHECK_DEADLOCK FALSE
