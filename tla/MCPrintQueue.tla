---------------------------- MODULE MCPrintQueue ----------------------------
EXTENDS PrintQueue, TLC

ClientSymmetry == Permutations(Clients)
=============================================================================
