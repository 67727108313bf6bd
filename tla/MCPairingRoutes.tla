--------------------------- MODULE MCPairingRoutes ---------------------------
EXTENDS PairingRoutes, TLC
Symmetry == Permutations(Calls) 
=============================================================================
