\* Two orders in one of two symbols; a refused log-on is tried again.
SPECIFICATION Spec
CONSTANTS
  o1 = o1
  o2 = o2
  s1 = s1
  s2 = s2
  Orders = {o1, o2}
  Symbols = {s1, s2}
  SymbolOf <- OneSymbol
  RetryLogon = TRUE
INVARIANTS
  TypeOK
  SilenceExplained
  ReadyIsLoggedOn
PROPERTIES
  OutcomesRefined
CHECK_DEADLOCK TRUE
