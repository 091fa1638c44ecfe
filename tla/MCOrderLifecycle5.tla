------------------------- MODULE MCOrderLifecycle5 -------------------------
EXTENDS OrderLifecycle5

CONSTANTS o1, o2
=============================================================================
