\* Two orders in one of two symbols; the process may end, or all requests be done.
SPECIFICATION Spec
CONSTANTS
  o1 = o1
  o2 = o2
  s1 = s1
  s2 = s2
  Api = "v5"
  Orders = {o1, o2}
  Symbols = {s1, s2}
  SymbolOf <- OneSymbol
  NetworkFails = TRUE
INVARIANTS
  TypeOK
  EveryRequestAccountedFor
  RejectedMeansRefused
PROPERTIES
  OutcomesRefined
CHECK_DEADLOCK FALSE
