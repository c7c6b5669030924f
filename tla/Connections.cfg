\* Every connection string of up to two settings for 49 configurations, with
\* attributes set before and after connecting; two connects, the first of
\* which may fail.
CONSTANTS
  c1 = c1
  c2 = c2
  Conns = {c1}
  DataSources = {"ATSD", "B"}
  IniFiles <- AllIniFiles
  Strings <- AllStrings
  Texts <- AllTexts
  Cut <- AllCuts
  BadUser = "a:b"
  Catalogs = {"k", "k;x"}
  FreshHandles = TRUE
  MaxConnects = 2
SPECIFICATION Spec
INVARIANTS ConnectedHasSession TargetIsAsked CompletedStringReconnects
\* The bound on connects.
CHECK_DEADLOCK FALSE
