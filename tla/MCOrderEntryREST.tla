------------------------- MODULE MCOrderEntryREST -------------------------
EXTENDS OrderEntryREST, TLC

CONSTANTS o1, o2, s1, s2

\* One order in each of two symbols.
TwoSymbols == (o1 :> s1) @@ (o2 :> s2)

\* Both orders in one symbol; the other symbol has none.
OneSymbol == (o1 :> s1) @@ (o2 :> s1)
=============================================================================
