-------------------------- MODULE MCOrderRecovery1 --------------------------
EXTENDS OrderRecovery1
=============================================================================
