\* A query of the unit tests.
CONSTANTS
  Pieces <- MCPieces
  Strings <- MCStrings
  Numbers = {"1", "-1"}
  Operators <- MCOperators
  WithoutMilliseconds <- MCWithoutMilliseconds
  Names <- MCNames
  FunctionTypes = {"ABS", "CONCAT", "CURDATE", "EXTRACT", "TIMESTAMPADD"}
  Texts <- TestTexts
  Upper <- MCUpper
  ColumnNames <- MCColumnNames
  Dotted <- MCDotted
SPECIFICATION QuerySpec
INVARIANT DatesAreConverted
CHECK_DEADLOCK FALSE
