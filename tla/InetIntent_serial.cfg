SPECIFICATION FairSpec
CHECK_DEADLOCK FALSE
CONSTANTS
  Orders = {o1}
  Intents = {i1, i2}
  Callbacks = {c1}
  Tills = {h1}
  Totals = {1, 2}
  Faulty = FALSE
  MaxTimeouts = 2
INVARIANT ClaimHasHandler
PROPERTY SuccessSettles
