\* Queries with nested escape sequences, subqueries, aliases and tables.
CONSTANTS
  Pieces <- MCPieces
  Strings <- MCStrings
  Numbers = {"1", "-1"}
  Operators <- MCOperators
  WithoutMilliseconds <- MCWithoutMilliseconds
  Names <- MCNames
  FunctionTypes = {"ABS", "CONCAT", "CURDATE", "EXTRACT", "TIMESTAMPADD"}
  Texts <- AllTexts
  Upper <- MCUpper
  ColumnNames <- MCColumnNames
  Dotted <- MCDotted
SPECIFICATION FairQuerySpec
INVARIANTS InOrder LostBehindParenthesis EscapesKeepMeaning QueryIsWhole TablesOfColumnsAreNotSplit AliasesAreNotSplit
PROPERTY PrepareReturns
CHECK_DEADLOCK FALSE
