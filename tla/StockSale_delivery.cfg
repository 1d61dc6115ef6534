SPECIFICATION Spec
CHECK_DEADLOCK FALSE
CONSTANTS
  s1 = s1
  s2 = s2
  s3 = s3
  s4 = s4
  k1 = k1
  k2 = k2
  NoKey = NoKey
  flour = flour
  egg = egg
  Ingredients = {flour, egg}
  Sales = {s3}
  TxSales = {s3}
  Keys = {k2}
  RequestOf <- OneDelivery
  Need <- TwoIngredientNeed
  Opening <- TooFewEggs
  QueueLimit = 1
  Faulty = FALSE
INVARIANT RefusedSaleTookNothing
