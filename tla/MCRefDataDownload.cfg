\* Two contracts, three calls on the wire at a time.
SPECIFICATION FairSpec
CONSTANTS
  Contracts = {k1, k2}
  Calls = {1, 2, 3}
  DownloadRefresh = TRUE
INVARIANTS
  TypeOK
  ReadyIsCurrent
  DownloadIsDriven
PROPERTIES
  PublishedInOrder
  ContractsBecomeKnown
CHECK_DEADLOCK TRUE
