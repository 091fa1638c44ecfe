\* Cross margin; one order is followed, another takes part in the batches and
\* may be dropped by the order cache; a refused log-on is fatal.
SPECIFICATION LifecycleSpec
CONSTANTS
  o1 = o1
  o2 = o2
  Orders = {o1, o2}
  Followed = o1
  Forgettable = {o2}
  MarginMode = "CROSS"
  RetryLogon = FALSE
  SubsAccepted = TRUE
INVARIANTS
  LifecycleTypeOK
  NeverUnexpected
  CallsAccountedFor
  CollectedOrdersArePending
  ReadyIsReconciled
  ReadyIsSubscribed
  ReadyIsTruthful
CHECK_DEADLOCK TRUE
