-------------------------- MODULE MCOrderRecovery5 --------------------------
EXTENDS OrderRecovery5
=============================================================================
