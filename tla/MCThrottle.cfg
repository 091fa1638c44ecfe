\* The clock stops at the horizon, hence no deadlock check.
SPECIFICATION ThrottleSpec
CONSTANTS
  Enabled = TRUE
  DefaultBackoff = 2
  BlockedBackoff = 4
  ClockOffset = 3
  Remaining = {0, 1}
  Resets = {0, 2, 7, 9}
  Horizon = 8
INVARIANTS
  ThrottleTypeOK
  QuotaRespected
PROPERTIES
  OnlyQuotaLifts
CHECK_DEADLOCK FALSE
