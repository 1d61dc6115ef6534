SPECIFICATION Spec
CHECK_DEADLOCK FALSE
CONSTANTS
  Orders = {o1}
  Intents = {i1, i2}
  Callbacks = {c1, c2}
  Tills = {h1, h2}
  Totals = {1, 2}
  Faulty = TRUE
  MaxTimeouts = 1
SYMMETRY Symmetry
INVARIANT ClaimExclusive
INVARIANT ReceiptOnce
INVARIANT PaidIntentIsSettled
INVARIANT LiveQrUnique
