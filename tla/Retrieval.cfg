\* Results of up to two columns and failed requests in every order of calls.
CONSTANTS
  Results <- SmallResults
  Targets = {"char", "default"}
  BufferSizes = {2, 8}
  SizeOf <- Size
  IntSize = 4
  Limit = 16
  MaxColumns = 2
  MaxResults = 2
SPECIFICATION RetrievalSpec
INVARIANTS FetchFillsRow PositionedOnFetched InfoTold
PROPERTIES OnlyWantedWritten BuffersAdvance
\* Undefined behaviour ends the process.
CHECK_DEADLOCK FALSE
