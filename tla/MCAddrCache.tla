----------------------------- MODULE MCAddrCache -----------------------------
EXTENDS AddrCache, TLC

Symmetry == Permutations(Callers)
===============================================================================
