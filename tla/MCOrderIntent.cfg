\* Both APIs, every request; GFD stands for the times in force that neither
\* API has.
SPECIFICATION Spec
CONSTANTS
  TimesInForce = {"UNDEFINED", "GTC", "IOC", "FOK", "GFD"}
  MaxUpdates = 2
INVARIANTS
  UnderstoodAsMeant
  SeenAsHeld
PROPERTIES
  NeverGoesBack
CHECK_DEADLOCK FALSE
