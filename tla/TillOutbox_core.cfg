SPECIFICATION Spec
CHECK_DEADLOCK FALSE
VIEW View
CONSTANTS
  walkIn = walkIn
  grab = grab
  None = None
  Baskets = {walkIn, grab}
  Delivery = {grab}
  MaxEvents = 3
INVARIANT AcceptedIsKept
INVARIANT OneSubmitAtATime
INVARIANT IdleIsFree
INVARIANT OneHome
INVARIANT ClosedDeliveryIsPaid
