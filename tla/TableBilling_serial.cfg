SPECIFICATION Spec
CONSTANTS
  Tables = {t1, t2}
  Orders = {o1, o2}
  Sessions = {s1, s2, s3}
  Requests = {r1}
  Routes = {"open", "sale", "edit", "move", "pay", "cancel", "issue", "submit"}
  TableEdits = {"reserved", "available"}
  MaxItems = 1
  MaxFaults = 2
CHECK_DEADLOCK FALSE
SYMMETRY Symmetry
INVARIANT BillIsShown
INVARIANT TableAgrees
INVARIANT ClosedBillRevokesQr
