SPECIFICATION Spec
CONSTANTS
  Tables = {t1, t2}
  Orders = {o1, o2}
  Sessions = {s1, s2}
  Requests = {r1, r2}
  Routes = {"open", "sale", "move", "pay", "issue", "submit"}
  TableEdits = {}
  MaxItems = 1
  MaxFaults = 0
CHECK_DEADLOCK FALSE
SYMMETRY Symmetry
INVARIANT OneBillPerTable
PROPERTY FinishedBillFrozen
