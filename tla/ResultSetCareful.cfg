\* An application that closes the cursor after every error; blocks of at least
\* one row, as the abstract cursor has them.
CONSTANTS
  CacheSize = 2
  ArraySizes = {1, 3}
  MaxRows = 4
  MaxReplies = 2
  ClosesAfterError = TRUE
SPECIFICATION FairSpec
INVARIANTS
  TypeOK
  FetchedIsPrefix
  NoDataOnlyAtEnd
PROPERTY
  CallsReturn
  ImplementsCursor
