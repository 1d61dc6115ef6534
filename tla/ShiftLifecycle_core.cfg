SPECIFICATION Spec
CHECK_DEADLOCK FALSE
CONSTANTS
  till = till
  front = front
  r1 = r1
  r2 = r2
  b1 = b1
  Tills = {till}
  Devices = {front}
  NoDevice = NoDevice
  DeviceOf <- Front
  Requests = {r1, r2}
  TillOf <- DoubleClick
  Bills = {b1}
  Uncached = Uncached
  MaxShifts = 2
INVARIANT OneOpenShiftPerDevice
INVARIANT EndedShiftOwesNothing
PROPERTY TillIsLetIn
