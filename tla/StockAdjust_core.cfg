SPECIFICATION AdjustSpec
CHECK_DEADLOCK FALSE
CONSTANTS
  d1 = d1
  d2 = d2
  r1 = r1
  r2 = r2
  p1 = p1
  k1 = k1
  k2 = k2
  k3 = k3
  k4 = k4
  flour = flour
  egg = egg
  Ingredients = {flour, egg}
  Items = {d1, d2, r1, r2}
  Restores = {r1, r2}
  Receipts = {p1}
  Keys = {k1, k2, k3, k4}
  KeyOf <- DeductionRepeatedAndRestored
  Need <- TwoIngredientNeed
  Opening <- ScarceStock
  Received = 2
  MaxActive = 2
  MaxFaults = 1
INVARIANT AdjustTypeOK
INVARIANT BookedOncePerKey
INVARIANT StockIsExplained
INVARIANT StockMatchesMovements
