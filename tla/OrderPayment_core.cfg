SPECIFICATION Spec
CONSTANTS
  Orders = {o1}
  Groups = {g1, g2}
  Requests = {r1, r2}
  Prices = {2}
  Amounts = {0, 2, 5}
  MaxTotal = 4
  Tolerance = 1
SYMMETRY Symmetry
INVARIANT GroupPaidOnce
INVARIANT PaidNeverCancelled
INVARIANT PaidExactly
INVARIANT CompletedIsPaid
PROPERTY LedgerSpec
