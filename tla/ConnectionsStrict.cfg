\* Two connections of one process, one that accepts certificates and one
\* that requires them.
CONSTANTS
  c1 = c1
  c2 = c2
  Conns = {c1, c2}
  DataSources = {"ATSD"}
  IniFiles <- FewIniFiles
  Strings <- SslStrings
  Texts <- AllTexts
  Cut <- AllCuts
  BadUser = "a:b"
  Catalogs = {"k"}
  FreshHandles = TRUE
  MaxConnects = 2
SPECIFICATION Spec
SYMMETRY Symmetry
INVARIANT RequiredIsChecked
CHECK_DEADLOCK FALSE
