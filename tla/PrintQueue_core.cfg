SPECIFICATION Spec
CONSTANTS
  pay = pay
  again1 = again1
  again2 = again2
  counter = counter
  kitchen = kitchen
  Requests = {pay, again1, again2}
  Kind <- MCKind
  Printers = {counter, kitchen}
  PrintersOf <- MCPrintersOf
  MaxRetry = 2
  QueueLimit = 1
  MaxJobs = 3
  MaxFaults = 1
INVARIANT CopiesAccounted
INVARIANT OpenJobHasWorker
PROPERTY EveryJobEnds
CHECK_DEADLOCK FALSE
