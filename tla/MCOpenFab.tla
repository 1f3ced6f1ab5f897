-------------------------------- MODULE MCOpenFab ------------------------------
EXTENDS OpenFab, TLC

\* Identifiers are interchangeable.
Sym == Permutations(Id)
================================================================================
