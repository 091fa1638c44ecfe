\* Five symbols, one discarded, over streams of two.
SPECIFICATION Spec
CONSTANTS
  a = a
  b = b
  c = c
  d = d
  e = e
  Symbols = {a, b, c, d, e}
  Discarded = {e}
  MaxPerStream = 2
SYMMETRY Symmetry
INVARIANTS
  TypeOK
  KnownOnce
  SubscribedExactlyOnce
  EverySymbolServed
CHECK_DEADLOCK TRUE
