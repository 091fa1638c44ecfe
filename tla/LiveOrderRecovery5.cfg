\* Liveness, and refinement of the batches: nothing is forgotten by the order cache, every channel may be
\* refused, the log-on may be refused and retried.
SPECIFICATION FairSpec
CONSTANTS
  o1 = o1
  o2 = o2
  Orders = {o1, o2}
  Forgettable = {}
  MarginMode = "CROSS"
  RetryLogon = TRUE
  SubsAccepted = FALSE
PROPERTIES
  RecoveryCompletes
  StaleOrdersSettle
  BatchesRefined
CHECK_DEADLOCK TRUE
