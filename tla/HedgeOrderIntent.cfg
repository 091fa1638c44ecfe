\* A sale to open on v5 is a sale of the long position.
SPECIFICATION Spec
CONSTANTS
  TimesInForce = {"UNDEFINED"}
  MaxUpdates = 1
INVARIANTS
  OpenMeansOpen
CHECK_DEADLOCK FALSE
