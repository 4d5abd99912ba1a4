----------------------------- MODULE SettingsMC -----------------------------
EXTENDS Settings, TLC

Symmetry == Permutations(Ops) \cup Permutations(Models) \cup Permutations(Skills)
=============================================================================
