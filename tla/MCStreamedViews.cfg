\* Every feed, two symbols, present and absent, and up to MaxWire messages on
\* the wire when another is pushed; unknown messages are fatal.
SPECIFICATION Spec
CONSTANTS
  s1 = s1
  s2 = s2
  Symbols = {s1, s2}
  Values = {0, 1}
  MaxWire = 2
  AllowUnknown = FALSE
INVARIANTS
  NothingUnexpected
  ViewIsExact
CHECK_DEADLOCK TRUE
