---------------------------- MODULE MCProcSched ----------------------------
EXTENDS ProcSched, TLC

Symmetry == Permutations(Slots)
=============================================================================
