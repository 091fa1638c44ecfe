--------------------------- MODULE MCOrderIntent ---------------------------
EXTENDS OrderIntent
=============================================================================
