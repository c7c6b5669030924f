\* An application that is held back by the driver manager only.
CONSTANTS
  CacheSize = 2
  ArraySizes = {0, 1, 3}
  MaxRows = 3
  MaxReplies = 3
  ClosesAfterError = FALSE
SPECIFICATION Spec
INVARIANTS
  IteratorValid
PROPERTY
  DeliveredInOrder
\* Undefined behaviour ends the process.
CHECK_DEADLOCK FALSE
