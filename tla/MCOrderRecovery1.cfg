\* Two orders; subscriptions may be refused, a refused log-on is fatal.
SPECIFICATION FairSpec
CONSTANTS
  o1 = o1
  o2 = o2
  Orders = {o1, o2}
  RetryLogon = FALSE
  SubsAccepted = FALSE
INVARIANTS
  TypeOK
  ReadyIsReconciled
  OnlyTheGapIsMissed
PROPERTIES
  RecoveryCompletes
CHECK_DEADLOCK TRUE
