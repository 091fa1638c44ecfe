------------------------- MODULE MCRefDataDownload -------------------------
EXTENDS RefDataDownload
=============================================================================
