SPECIFICATION Spec
CHECK_DEADLOCK FALSE
SYMMETRY Symmetry
VIEW View
CONSTANTS
  s1 = s1
  s2 = s2
  s3 = s3
  s4 = s4
  k1 = k1
  k2 = k2
  NoKey = NoKey
  flour = flour
  egg = egg
  Ingredients = {flour, egg}
  Sales = {s1, s2, s3, s4}
  TxSales = {s3, s4}
  Keys = {k1, k2}
  RequestOf <- RetriedRequest
  Need <- TwoIngredientNeed
  Opening <- TwoIngredientStock
  QueueLimit = 2
  Faulty = TRUE
INVARIANT OneOrderPerKey
INVARIANT SoldOrderIsWhole
INVARIANT NeverOverdrawn
