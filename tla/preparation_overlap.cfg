SPECIFICATION Spec
CONSTANTS
  a1 = a1  a2 = a2  r1 = r1  r2 = r2  t1 = t1  t2 = t2
  Agents = {a1}
  Targets = {t1, t2}
  Runs = {r1, r2}
  NoRun = NoRun
  NoTarget = NoTarget
  MaxRevision = 2
SYMMETRY Symmetric
INVARIANTS PreparationExclusive
CHECK_DEADLOCK FALSE
