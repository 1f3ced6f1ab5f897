---------------------------- MODULE MCKernelContext ----------------------------
EXTENDS KernelContext, TLC

\* Files and addresses are interchangeable.
Sym == Permutations(File) \cup Permutations(Addr)
================================================================================
