------------------------------ MODULE MCTerminal ------------------------------
\* Values of Terminal's constants for TLC.
EXTENDS Terminal, TLC

ReaderSymmetry == Permutations(Readers)
=============================================================================
