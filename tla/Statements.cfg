\* Any use of two statements on one connection; what is claimed of a tidy
\* application only says so itself.
CONSTANTS
  s1 = s1
  s2 = s2
  a1 = a1
  a2 = a2
  NoStmt = NoStmt
  Null = Null
  Stmts = {s1, s2}
  Addresses = {a1, a2}
  RetryCount = 1
  CacheSize = 2
  MaxRows = 3
  MaxRequests = 3
SPECIFICATION FairSpec
INVARIANTS
  TypeOK
  StreamsAlive
  CleanWire
  TriesAreBounded
  EndMeansAll
  StreamOwner
  RowsAccounted
PROPERTIES
  SuccessIsAnswered
  RequestsReturn
\* Undefined behaviour ends the process.
CHECK_DEADLOCK FALSE
