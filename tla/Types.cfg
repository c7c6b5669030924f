\* Every type of up to seven tokens.
CONSTANTS
  Names = {"Int", "Nullable", "Array"}
  Sizes = {"5"}
  NoSize = "0"
  MaxTokens = 7
SPECIFICATION Spec
INVARIANTS StackIsPath BalancedIsDefined TreeIsReference InfoIsReference
\* A type is parsed once.
CHECK_DEADLOCK FALSE
