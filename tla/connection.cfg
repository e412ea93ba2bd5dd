SPECIFICATION Spec
CONSTANTS
  a1 = a1  a2 = a2  r1 = r1  r2 = r2  t1 = t1  t2 = t2
  Agents = {a1, a2}
  Targets = {t1}
  Runs = {r1, r2}
  NoRun = NoRun
  NoTarget = NoTarget
  MaxRevision = 3
SYMMETRY Symmetric
INVARIANTS TypeOK BindingRevision OperationAuthority EvidenceCurrent AttendedScriptAlone
PROPERTIES RebindAtomic
CHECK_DEADLOCK FALSE
