----------------------------- MODULE InstanceMC -----------------------------
(***************************************************************************)
(* Instance for TLC: the daemon processes are interchangeable.             *)
(***************************************************************************)
EXTENDS Instance, TLC

Symmetry == Permutations(Daemons) \cup Permutations(Launchers)

=============================================================================
