\* SQL_CLOSE without a cursor.
CONSTANTS
  Results <- SmallResults
  Targets = {"char", "default"}
  BufferSizes = {2, 8}
  SizeOf <- Size
  IntSize = 4
  Limit = 16
  MaxColumns = 2
  MaxResults = 2
SPECIFICATION RetrievalSpec
PROPERTY CloseKeepsBindings
\* Undefined behaviour ends the process.
CHECK_DEADLOCK FALSE
