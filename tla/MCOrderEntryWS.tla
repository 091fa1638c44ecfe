--------------------------- MODULE MCOrderEntryWS ---------------------------
EXTENDS OrderEntryWS, TLC

CONSTANTS o1, o2, s1, s2

\* Both orders in one symbol; the other symbol has none.
OneSymbol == (o1 :> s1) @@ (o2 :> s1)
=============================================================================
