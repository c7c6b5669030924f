\* Statement::reset is documented to lead back to the initial state.
CONSTANTS
  s1 = s1
  s2 = s2
  a1 = a1
  a2 = a2
  NoStmt = NoStmt
  Null = Null
  Stmts = {s1}
  Addresses = {a1}
  RetryCount = 0
  CacheSize = 1
  MaxRows = 1
  MaxRequests = 1
SPECIFICATION Spec
PROPERTY
  PrepareAfterReset
CHECK_DEADLOCK FALSE
