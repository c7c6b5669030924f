\* One environment, two connections, two statements, one exception.
CONSTANTS
  e1 = e1
  c1 = c1
  c2 = c2
  s1 = s1
  s2 = s2
  f1 = f1
  Envs = {e1}
  Conns = {c1, c2}
  Stmts = {s1, s2}
  NoHandle = NoHandle
  Faults = {f1}
  NoFault = NoFault
SPECIFICATION Spec
SYMMETRY Symmetry
INVARIANTS
  TypeOK
  NothingDangles
