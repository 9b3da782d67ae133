SPECIFICATION Spec
CONSTANTS
  f1 = f1  f2 = f2  f3 = f3  f4 = f4
  Files = {f1, f2, f3, f4}
  Size <- Sizes
  Limit = 2
  TaskIds = {t1, t2}
  Requests = {r1, r2}
  None = None
SYMMETRY TaskSymmetry
INVARIANTS TypeOK QuotaHolds RowsHaveFiles RowsHaveTasks FilesAccountedFor
CHECK_DEADLOCK FALSE
