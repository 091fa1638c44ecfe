-------------------------- MODULE MCStreamedViews --------------------------
EXTENDS StreamedViews

CONSTANTS s1, s2
=============================================================================
