-------------------------- MODULE MCSymbolStreams --------------------------
EXTENDS SymbolStreams, TLC

\* Symbols are interchangeable but for the discarded one.
Symmetry == Permutations(Symbols \ Discarded)
=============================================================================
