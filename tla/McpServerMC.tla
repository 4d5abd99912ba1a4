----------------------------- MODULE McpServerMC -----------------------------
EXTENDS McpServer, TLC

Symmetry == Permutations(Ops) \cup Permutations(Versions)
=============================================================================
