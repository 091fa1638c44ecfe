\* A network without failures.
SPECIFICATION Spec
CONSTANTS
  o1 = o1
  o2 = o2
  s1 = s1
  s2 = s2
  Api = "v5"
  Orders = {o1, o2}
  Symbols = {s1, s2}
  SymbolOf <- TwoSymbols
  NetworkFails = FALSE
INVARIANTS
  NoErrorWithoutOutage
CHECK_DEADLOCK FALSE
