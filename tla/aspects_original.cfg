CONSTANTS
  S = S
  A = A
  K = K
  a = a
  k = k
  p = p
  q = q
  Names = {S, A, K}
  Above <- SuperClasses
  Stated <- StatedClass
  Objects = {a, k}
  ClassOf <- ClassOfObject
  Selectors = {p, q}
  Definitions <- Overridden
  Options <- SomeOptions
  Tokens = {t1, t2}
  Senders = {x, y}
  Nil = Nil
  Refused = Refused
SPECIFICATION Spec
SYMMETRY Symmetry
INVARIANTS OriginalCalled
CHECK_DEADLOCK FALSE
